---------------------------- MODULE Spec2Model ----------------------------
(***************************************************************************)
(* AgentWatch core orchestrator (.github/scripts/agentwatch.js).           *)
(*                                                                         *)
(* Text is modelled as sequences of one-character strings, so that the     *)
(* glob compiler, the command parsers and the replay regexes work on the   *)
(* characters the JavaScript works on.  A value that is used several times *)
(* is passed on as an operator parameter, the way the JavaScript binds it  *)
(* to a const.                                                             *)
(***************************************************************************)
EXTENDS Integers, Sequences, FiniteSets, TLC

(***************************************************************************)
(* Characters and JavaScript string primitives                             *)
(***************************************************************************)

\* The characters used by the model, in code-point order (for [a-z] ranges).
Ascii ==
  << "\t", "\n", " ", "$", "(", ")", "*", "+", ",", "-", ".", "/",
     "0", "1", "2", "3", "4", "5", "6", "7", "8", "9", ":", "?", "@",
     "A", "B", "C", "D", "E", "F", "G", "H", "I", "J", "K", "L", "M",
     "N", "O", "P", "Q", "R", "S", "T", "U", "V", "W", "X", "Y", "Z",
     "[", "\\", "]", "^", "_",
     "a", "b", "c", "d", "e", "f", "g", "h", "i", "j", "k", "l", "m",
     "n", "o", "p", "q", "r", "s", "t", "u", "v", "w", "x", "y", "z",
     "{", "|", "}" >>

Ord(c) == CHOOSE i \in 1..Len(Ascii) : Ascii[i] = c

\* \s of a JavaScript regular expression, and the characters trim() strips.
WhiteSpace == {" ", "\t", "\n"}

\* \w of a JavaScript regular expression.
WordChars ==
  { Ascii[k] : k \in (Ord("0")..Ord("9")) \cup (Ord("A")..Ord("Z"))
                       \cup (Ord("a")..Ord("z")) \cup {Ord("_")} }

\* The least element of a set of positions, 0 for the empty set.
LeastOrZero(S) == IF S = {} THEN 0 ELSE CHOOSE i \in S : \A j \in S : i <= j

\* The greatest element of a set of positions, 0 for the empty set.
GreatestOrZero(S) == IF S = {} THEN 0 ELSE CHOOSE i \in S : \A j \in S : i >= j

\* s.startsWith(sub, i-1) with 1-based i.
StartsWithAt(s, sub, i) ==
  /\ i >= 1
  /\ i + Len(sub) - 1 <= Len(s)
  /\ \A k \in 1..Len(sub) : s[i + k - 1] = sub[k]

\* The positions where sub occurs in s.
Occurrences(s, sub) == { i \in 1..Len(s) : StartsWithAt(s, sub, i) }

\* s.indexOf(sub) + 1: the least position where sub starts, or 0.
IndexOf(s, sub) == LeastOrZero(Occurrences(s, sub))

\* s.includes(sub)
Includes(s, sub) == Occurrences(s, sub) # {}

\* s.slice(i-1): the text from position i to the end.
SliceFrom(s, i) == IF i > Len(s) THEN << >> ELSE SubSeq(s, i, Len(s))

\* s.slice(lo-1, hi) for positions lo..hi of kept text; lo = 0: nothing kept.
Between(s, lo, hi) == IF lo = 0 THEN << >> ELSE SubSeq(s, lo, hi)

\* s.trim()
Trim(s) ==
  Between(s, LeastOrZero({ i \in 1..Len(s) : s[i] \notin WhiteSpace }),
             GreatestOrZero({ i \in 1..Len(s) : s[i] \notin WhiteSpace }))

\* The end (exclusive) of the longest run of characters of set cs starting at i.
RECURSIVE RunEnd(_, _, _)
RunEnd(s, cs, i) ==
  IF i <= Len(s) /\ s[i] \in cs THEN RunEnd(s, cs, i + 1) ELSE i

\* The end (exclusive) of the longest run of characters outside cs starting at i.
RECURSIVE RunEndNot(_, _, _)
RunEndNot(s, cs, i) ==
  IF i <= Len(s) /\ s[i] \notin cs THEN RunEndNot(s, cs, i + 1) ELSE i

\* The end (exclusive) of the line that position i is on.
LineEnd(s, i) == RunEndNot(s, {"\n"}, i)

\* s.split(/\s+/): the pieces between maximal whitespace runs (empty pieces
\* at the ends are kept, as JavaScript keeps them).
RECURSIVE SplitWS(_)
RECURSIVE SplitWSAt(_, _)
SplitWS(s) == SplitWSAt(s, RunEndNot(s, WhiteSpace, 1))
SplitWSAt(s, e) ==
  IF e > Len(s) THEN << s >>
  ELSE << SubSeq(s, 1, e - 1) >> \o SplitWS(SliceFrom(s, RunEnd(s, WhiteSpace, e)))

\* s.split(sep) for a non-empty separator: all the pieces.
RECURSIVE SplitAll(_, _)
RECURSIVE SplitAllAt(_, _, _)
SplitAll(s, sep) == SplitAllAt(s, sep, IndexOf(s, sep))
SplitAllAt(s, sep, i) ==
  IF i = 0 THEN << s >>
  ELSE << SubSeq(s, 1, i - 1) >> \o SplitAll(SliceFrom(s, i + Len(sep)), sep)

\* The first `limit` elements of a list.
FirstN(all, limit) == IF Len(all) <= limit THEN all ELSE SubSeq(all, 1, limit)

\* s.split(sep, limit): JavaScript splits completely and keeps the first
\* `limit` pieces; the remainder of the text is NOT kept in the last piece.
SplitLimit(s, sep, limit) == FirstN(SplitAll(s, sep), limit)

\* pieces.join(sep)
RECURSIVE Join(_, _)
Join(pieces, sep) ==
  IF pieces = << >> THEN << >>
  ELSE IF Len(pieces) = 1 THEN pieces[1]
  ELSE pieces[1] \o sep \o Join(Tail(pieces), sep)

\* s.replace(/sub/g, rep) for a literal sub: leftmost, non-overlapping.
RECURSIVE ReplaceAll(_, _, _)
RECURSIVE ReplaceAllAt(_, _, _, _)
ReplaceAll(s, sub, rep) == ReplaceAllAt(s, sub, rep, IndexOf(s, sub))
ReplaceAllAt(s, sub, rep, i) ==
  IF i = 0 THEN s
  ELSE SubSeq(s, 1, i - 1) \o rep \o ReplaceAll(SliceFrom(s, i + Len(sub)), sub, rep)

(***************************************************************************)
(* JavaScript regular expressions, as far as matchPattern produces them:   *)
(* literals, \x escapes, ".", character classes with ranges and negation,  *)
(* "*" after an atom, "|" at the top level, "^" and "$".                   *)
(***************************************************************************)

RegexFail == [ok |-> FALSE, neg |-> FALSE, items |-> << >>, next |-> 0]

\* One member of a character class at position i: a character or \x.
ClassAtom(r, i) ==
  IF r[i] = "\\"
  THEN IF i + 1 > Len(r) THEN [ok |-> FALSE, ch |-> "", next |-> i]
       ELSE [ok |-> TRUE, ch |-> r[i + 1], next |-> i + 2]
  ELSE [ok |-> TRUE, ch |-> r[i], next |-> i + 1]

\* The members of a character class from position i up to its closing "]",
\* as <<lo, hi>> ranges added to items.  Not ok: the class is not terminated,
\* or a range is out of order ([z-a]); new RegExp throws on both.
RECURSIVE ClassItems(_, _, _)
RECURSIVE ClassItemAt(_, _, _)
RECURSIVE ClassRangeTo(_, _, _, _)
ClassItems(r, i, items) ==
  IF i > Len(r) THEN RegexFail
  ELSE IF r[i] = "]" THEN [ok |-> TRUE, neg |-> FALSE, items |-> items, next |-> i + 1]
  ELSE ClassItemAt(r, items, ClassAtom(r, i))
ClassItemAt(r, items, a) ==
  IF ~a.ok THEN RegexFail
  ELSE IF a.next + 1 <= Len(r) /\ r[a.next] = "-" /\ r[a.next + 1] # "]"
  THEN ClassRangeTo(r, items, a, ClassAtom(r, a.next + 1))
  ELSE ClassItems(r, a.next, Append(items, << a.ch, a.ch >>))
ClassRangeTo(r, items, a, b) ==
  IF ~b.ok \/ Ord(a.ch) > Ord(b.ch) THEN RegexFail
  ELSE ClassItems(r, b.next, Append(items, << a.ch, b.ch >>))

Negated(class) == [class EXCEPT !.neg = TRUE]

\* The character class opening at position i (r[i] = "[").
ParseClass(r, i) ==
  IF i + 1 <= Len(r) /\ r[i + 1] = "^"
  THEN Negated(ClassItems(r, i + 2, << >>))
  ELSE ClassItems(r, i + 1, << >>)

Atom(kind, ch, neg, items) ==
  [kind |-> kind, ch |-> ch, neg |-> neg, items |-> items, star |-> FALSE]

Parsed(atom, next) == [atom |-> atom, next |-> next]

\* A parsed class as an atom; a class that does not parse is an error.
ClassAsAtom(r, class) ==
  IF class.ok THEN Parsed(Atom("class", "", class.neg, class.items), class.next)
  ELSE Parsed(Atom("err", "", FALSE, << >>), Len(r) + 1)

\* The atom at position i and the position after it.
ParseAtom(r, i) ==
  CASE r[i] = "\\" ->
         IF i + 1 > Len(r) THEN Parsed(Atom("err", "", FALSE, << >>), i + 1)
         ELSE Parsed(Atom("lit", r[i + 1], FALSE, << >>), i + 2)
    [] r[i] = "." -> Parsed(Atom("any", "", FALSE, << >>), i + 1)
    [] r[i] = "|" -> Parsed(Atom("bar", "", FALSE, << >>), i + 1)
    [] r[i] = "^" -> Parsed(Atom("bol", "", FALSE, << >>), i + 1)
    [] r[i] = "$" -> Parsed(Atom("eol", "", FALSE, << >>), i + 1)
    [] r[i] = "[" -> ClassAsAtom(r, ParseClass(r, i))
    \* a quantifier with nothing to repeat
    [] r[i] \in {"*", "+", "?"} -> Parsed(Atom("err", "", FALSE, << >>), i + 1)
    \* groups and counted repetition: matchPattern escapes these
    [] r[i] \in {"(", ")", "{"} -> Parsed(Atom("unsupported", "", FALSE, << >>), i + 1)
    [] OTHER -> Parsed(Atom("lit", r[i], FALSE, << >>), i + 1)

\* The atoms of r from position i on, each with its "*" if one follows.
RECURSIVE ParseAtoms(_, _)
RECURSIVE ParseAtomsAfter(_, _)
ParseAtoms(r, i) ==
  IF i > Len(r) THEN << >> ELSE ParseAtomsAfter(r, ParseAtom(r, i))
ParseAtomsAfter(r, p) ==
  IF ~(p.next <= Len(r) /\ r[p.next] = "*") THEN << p.atom >> \o ParseAtoms(r, p.next)
  ELSE IF p.atom.kind \in {"bar", "bol", "eol"} THEN << Atom("err", "", FALSE, << >>) >>
  ELSE << [p.atom EXCEPT !.star = TRUE] >> \o ParseAtoms(r, p.next + 1)

\* The alternatives of an atom list: the runs between top-level "|".
RECURSIVE Alternatives(_)
RECURSIVE AlternativesAt(_, _)
Alternatives(atoms) ==
  AlternativesAt(atoms, LeastOrZero({ i \in 1..Len(atoms) : atoms[i].kind = "bar" }))
AlternativesAt(atoms, b) ==
  IF b = 0 THEN << atoms >>
  ELSE << SubSeq(atoms, 1, b - 1) >> \o Alternatives(SliceFrom(atoms, b + 1))

\* Whether character c is accepted by atom a (ignoring its star).
Accepts(a, c) ==
  CASE a.kind = "lit" -> c = a.ch
    [] a.kind = "any" -> c # "\n"
    [] a.kind = "class" ->
         a.neg # (\E k \in 1..Len(a.items) :
                    Ord(a.items[k][1]) <= Ord(c) /\ Ord(c) <= Ord(a.items[k][2]))
    [] OTHER -> FALSE

\* The positions the match can be at after atom a, starting from positions S.
AtomStep(a, s, S) ==
  CASE a.kind = "bol" -> S \cap {1}
    [] a.kind = "eol" -> S \cap {Len(s) + 1}
    [] a.star ->
         { j \in 1..(Len(s) + 1) :
             \E i \in S : i <= j /\ \A k \in i..(j - 1) : Accepts(a, s[k]) }
    [] OTHER -> { i + 1 : i \in { k \in S : k <= Len(s) /\ Accepts(a, s[k]) } }

RECURSIVE RunAtoms(_, _, _)
RunAtoms(atoms, s, S) ==
  IF atoms = << >> \/ S = {} THEN S
  ELSE RunAtoms(Tail(atoms), s, AtomStep(Head(atoms), s, S))

\* new RegExp(regexStr) does not throw, given the atoms of regexStr.
RegexCompiles(atoms) == \A i \in 1..Len(atoms) : atoms[i].kind # "err"

\* Some substring of s matches some one of the alternatives.
SomeAlternative(alts, s) ==
  \E k \in 1..Len(alts) : RunAtoms(alts[k], s, 1..(Len(s) + 1)) # {}

\* regex.test(s), given the atoms of the regular expression.
RegexTest(atoms, s) == SomeAlternative(Alternatives(atoms), s)

(***************************************************************************)
(* matchPattern: the glob matcher                                          *)
(***************************************************************************)

\* The characters of /[.+^${}()|\\]/ : escaped before the glob tokens are
\* substituted.
RegexSpecials == {".", "+", "^", "$", "{", "}", "(", ")", "|", "\\"}

\* .replace(/[.+^${}()|\\]/g, '\\$&')
RECURSIVE EscapeSpecials(_)
EscapeSpecials(s) ==
  IF s = << >> THEN << >>
  ELSE (IF s[1] \in RegexSpecials THEN << "\\", s[1] >> ELSE << s[1] >>)
         \o EscapeSpecials(Tail(s))

\* .replace(/\{([^}]+)\}/g, (m, group) => '(' + group.split(',').join('|') + ')')
\* The leftmost "{" that is followed by at least one non-"}" character and
\* then a "}" is rewritten, and the scan goes on after that "}".
RECURSIVE ExpandBraces(_)
RECURSIVE ExpandBracesAt(_, _)
RECURSIVE ExpandGroup(_, _, _)
ExpandBraces(s) ==
  ExpandBracesAt(s, LeastOrZero({ i \in 1..Len(s) :
                                    /\ s[i] = "{"
                                    /\ RunEndNot(s, {"}"}, i + 1) > i + 1
                                    /\ RunEndNot(s, {"}"}, i + 1) <= Len(s) }))
ExpandBracesAt(s, i) ==
  IF i = 0 THEN s ELSE ExpandGroup(s, i, RunEndNot(s, {"}"}, i + 1))
ExpandGroup(s, i, e) ==
  SubSeq(s, 1, i - 1)
    \o << "(" >> \o Join(SplitAll(SubSeq(s, i + 1, e - 1), << "," >>), << "|" >>) \o << ")" >>
    \o ExpandBraces(SliceFrom(s, e + 1))

\* .replace(/\[([^\]]+)\]/g, '[$1]') puts back exactly the text it matched.
KeepClasses(s) == s

\* A compiler whose "*" is ".*" and so runs over "/"; C11 tells it from
\* GlobToRegex.
GlobToRegexStarCrosses(pattern) ==
  << "^" >>
    \o ExpandBraces(
         KeepClasses(
           ReplaceAll(
             ReplaceAll(
               ReplaceAll(EscapeSpecials(pattern), << "*", "*" >>, << ".", "*" >>),
               << "*" >>, << ".", "*" >>),
             << "?" >>, << "." >>)))
    \o << "$" >>

\* The regular expression source matchPattern builds for a pattern.
GlobToRegex(pattern) ==
  << "^" >>
    \o ExpandBraces(
         KeepClasses(
           ReplaceAll(
             ReplaceAll(
               ReplaceAll(EscapeSpecials(pattern), << "*", "*" >>, << ".", "*" >>),
               << "*" >>, << "[", "^", "/", "]", "*" >>),
             << "?" >>, << "." >>)))
    \o << "$" >>

\* try { return new RegExp(regexStr).test(filepath) } catch (e) { return false }
TestCompiled(atoms, filepath) ==
  IF RegexCompiles(atoms) THEN RegexTest(atoms, filepath) ELSE FALSE

\* A matcher that lacks the special case of lines 16-17 and compiles "*" like
\* any other pattern; C10 tells it from matchPattern.
matchPatternCompiledOnly(pattern, filepath) ==
  IF pattern = filepath THEN TRUE
  ELSE TestCompiled(ParseAtoms(GlobToRegex(pattern), 1), filepath)

matchPattern(pattern, filepath) ==
  IF pattern = << "*" >> THEN TRUE
  ELSE IF pattern = filepath THEN TRUE
  ELSE TestCompiled(ParseAtoms(GlobToRegex(pattern), 1), filepath)

(***************************************************************************)
(* Command text                                                            *)
(***************************************************************************)

AgentPrefix == << "@", "a", "g", "e", "n", "t", "-" >>
WatchToken == AgentPrefix \o << "w", "a", "t", "c", "h" >>
UnwatchToken == AgentPrefix \o << "u", "n", "w", "a", "t", "c", "h" >>
ListToken == AgentPrefix \o << "l", "i", "s", "t" >>
RunToken == AgentPrefix \o << "r", "u", "n" >>
ArgSeparator == << " ", "@", " " >>
OptionPrefix == << "-", "-" >>
UndefinedText == << "u", "n", "d", "e", "f", "i", "n", "e", "d" >>

\* /<token>\s+(.+)/ at an occurrence of the token that ends before position a,
\* the whitespace after it ending before e: the start of group 1, or 0.  \s+
\* is greedy and gives whitespace back only when it ran to the end of the text.
RestStart(s, a, e) ==
  IF e = a THEN 0
  ELSE IF e <= Len(s) THEN e
  ELSE GreatestOrZero({ k \in (a + 1)..Len(s) : s[k] # "\n" })

CommandRestStart(s, token, p) ==
  RestStart(s, p + Len(token), RunEnd(s, WhiteSpace, p + Len(token)))

\* The text from position st to the end of its line; nothing for st = 0.
LineAt(s, st) == IF st = 0 THEN << >> ELSE SubSeq(s, st, LineEnd(s, st) - 1)

\* comment.match(/<token>\s+(.+)/)?.[1] || '' : group 1 of the leftmost match.
FullCommand(comment, token) ==
  LineAt(comment,
         LeastOrZero({ CommandRestStart(comment, token, p) :
                         p \in Occurrences(comment, token) } \ {0}))

ParseFailed ==
  [ok |-> FALSE, fileTarget |-> << >>, agentName |-> << >>, argsString |-> << >>]

\* watchParts[k-1], which is undefined beyond the end of the array.
Part(watchParts, k) == IF k <= Len(watchParts) THEN watchParts[k] ELSE UndefinedText

\* Lines 108-131: options, pattern, agent name and args from the watch part.
ParseParts(hasSeparator, watchParts, agentArgs) ==
  IF Len(watchParts) < 2 THEN ParseFailed
  ELSE IF StartsWithAt(watchParts[1], OptionPrefix, 1)
  THEN [ok |-> TRUE, fileTarget |-> watchParts[2], agentName |-> Part(watchParts, 3),
        argsString |-> Trim(agentArgs)]
  ELSE [ok |-> TRUE, fileTarget |-> watchParts[1], agentName |-> watchParts[2],
        argsString |->
          Trim(IF ~hasSeparator /\ Len(watchParts) > 2
               THEN Join(SliceFrom(watchParts, 3), << " " >>)
               ELSE agentArgs)]

\* [watchPart, agentArgs] = fullCommand.split(' @ ', 2)
ParseSeparated(pieces) == ParseParts(TRUE, SplitWS(Trim(pieces[1])), pieces[2])

\* Lines 100-131, given fullCommand.
ParseCommand(fullCommand) ==
  IF Includes(fullCommand, ArgSeparator)
  THEN ParseSeparated(SplitLimit(fullCommand, ArgSeparator, 2))
  ELSE ParseParts(FALSE, SplitWS(Trim(fullCommand)), << >>)

\* handleComment, lines 97-131: the live parse of a watch command.
\* ok = FALSE is the "Invalid @agent-watch command format" exit.
ParseWatchLive(comment) == ParseCommand(FullCommand(comment, WatchToken))

NoMatch == [ok |-> FALSE, at |-> 0, agent |-> << >>, pattern |-> << >>, args |-> << >>]

\* The end of the run at position i of: "s" \s, "w" \w, "S" [^\s].
RunOf(s, kind, i) ==
  CASE kind = "s" -> RunEnd(s, WhiteSpace, i)
    [] kind = "w" -> RunEnd(s, WordChars, i)
    [] kind = "S" -> RunEndNot(s, WhiteSpace, i)

\* The ends of consecutive greedy runs of the given kinds from position i on.
RECURSIVE Runs(_, _, _)
RECURSIVE RunsAfter(_, _, _)
Runs(s, i, kinds) ==
  IF kinds = << >> THEN << >> ELSE RunsAfter(s, kinds, RunOf(s, Head(kinds), i))
RunsAfter(s, kinds, e) == << e >> \o Runs(s, e, Tail(kinds))

\* The match of a set of attempts that starts leftmost.
LeftmostMatch(attempts) ==
  IF \E m \in attempts : m.ok
  THEN CHOOSE m \in attempts : m.ok /\ \A n \in attempts : n.ok => m.at <= n.at
  ELSE NoMatch

\* /@agent-unwatch\s+(\w+)\s+([^\s]+)/ after a token that ends before a, the
\* runs \s+ \w+ \s+ [^\s]+ ending before e[1..4].
UnwatchGroups(s, a, e) ==
  IF e[1] > a /\ e[2] > e[1] /\ e[3] > e[2] /\ e[4] > e[3]
  THEN [ok |-> TRUE, at |-> a, agent |-> SubSeq(s, e[1], e[2] - 1),
        pattern |-> SubSeq(s, e[3], e[4] - 1), args |-> << >>]
  ELSE NoMatch

UnwatchAt(s, p) ==
  UnwatchGroups(s, p + Len(UnwatchToken),
                Runs(s, p + Len(UnwatchToken), << "s", "w", "s", "S" >>))

\* body.match(/@agent-unwatch\s+(\w+)\s+([^\s]+)/)
UnwatchMatch(body) ==
  LeftmostMatch({ UnwatchAt(body, p) : p \in Occurrences(body, UnwatchToken) })

\* /@agent-watch\s+([^\s]+)\s+(\w+)\s*(.*)/ after a token that ends before a,
\* the runs \s+ [^\s]+ \s+ \w+ \s* ending before e[1..5]; args is group 3
\* after .trim().
WatchGroups(s, a, e) ==
  IF e[1] > a /\ e[2] > e[1] /\ e[3] > e[2] /\ e[4] > e[3]
  THEN [ok |-> TRUE, at |-> a, agent |-> SubSeq(s, e[3], e[4] - 1),
        pattern |-> SubSeq(s, e[1], e[2] - 1),
        args |-> Trim(SubSeq(s, e[5], LineEnd(s, e[5]) - 1))]
  ELSE NoMatch

WatchAt(s, p) ==
  WatchGroups(s, p + Len(WatchToken),
              Runs(s, p + Len(WatchToken), << "s", "S", "s", "w", "s" >>))

\* body.match(/@agent-watch\s+([^\s]+)\s+(\w+)\s*(.*)/)
WatchMatch(body) ==
  LeftmostMatch({ WatchAt(body, p) : p \in Occurrences(body, WatchToken) })

\* /@agent-unwatch\s+([^\s]+)/ of handleUnwatch; group 1 is in `pattern`.
UnwatchTargetGroups(s, a, e) ==
  IF e[1] > a /\ e[2] > e[1]
  THEN [ok |-> TRUE, at |-> a, agent |-> << >>,
        pattern |-> SubSeq(s, e[1], e[2] - 1), args |-> << >>]
  ELSE NoMatch

UnwatchTargetAt(s, p) ==
  UnwatchTargetGroups(s, p + Len(UnwatchToken),
                      Runs(s, p + Len(UnwatchToken), << "s", "S" >>))

\* comment.match(/@agent-unwatch\s+([^\s]+)/)
UnwatchLiveMatch(comment) ==
  LeftmostMatch({ UnwatchTargetAt(comment, p) : p \in Occurrences(comment, UnwatchToken) })

RunFailed == [ok |-> FALSE, agentName |-> << >>, argsString |-> << >>]

\* fullCommand.match(/^(\w+)\s*(.*)/), the agent name ending before e.
RunGroups(fullCommand, e) ==
  IF e = 1 THEN RunFailed
  ELSE [ok |-> TRUE, agentName |-> SubSeq(fullCommand, 1, e - 1),
        argsString |-> Trim(SliceFrom(fullCommand, e))]

\* const parts = fullCommand.split(' @ ', 2)
RunSeparated(parts) ==
  [ok |-> TRUE, agentName |-> Trim(parts[1]), argsString |-> Trim(parts[2])]

\* handleIssueComment, lines 936-947, given fullCommand.
ParseRunCommand(fullCommand) ==
  IF Includes(fullCommand, ArgSeparator)
  THEN RunSeparated(SplitLimit(fullCommand, ArgSeparator, 2))
  ELSE RunGroups(fullCommand, RunEnd(fullCommand, WordChars, 1))

\* handleIssueComment, lines 933-947: agent name and args of a run command.
ParseRun(comment) == ParseRunCommand(FullCommand(comment, RunToken))

(***************************************************************************)
(* The platform: pull requests, issues, files, comments, labels            *)
(***************************************************************************)

\* Pull requests are numbered 1..MaxPR; number MaxPR + 1 is a plain issue.
MaxPR == 3
\* The most comments users post while the system runs.
MaxComments == 2
\* The most comments of a history that exists before the system runs.
MaxHistory == 2

PRs == 1..MaxPR
PlainIssue == MaxPR + 1
Targets == 1..(MaxPR + 1)

\* The workflow runs that handle events: the platform starts one run per
\* event and runs of different events may overlap.
Workers == {1, 2}

F_a_js == << "a", ".", "j", "s" >>
F_b_py == << "b", ".", "p", "y" >>
F_x_js == << "x", ".", "j", "s" >>

\* pulls.listFiles: the files of each pull request, in the platform's order.
FileSets == << << F_a_js, F_b_py >>, << F_a_js >>, << F_x_js, F_a_js >> >>
PRFiles(n) == FileSets[((n - 1) % Len(FileSets)) + 1]

Echo == << "e", "c", "h", "o" >>
Lint == << "l", "i", "n", "t" >>
Ghost == << "g", "h", "o", "s", "t" >>

\* The agents for which agents/<name>.js exists.
Registry == {Echo, Lint}

AgentsDir == << "a", "g", "e", "n", "t", "s" >>
JsSuffix == << ".", "j", "s" >>

\* The script itself, in the directory that holds agents/.
ScriptFile == << "a", "g", "e", "n", "t", "w", "a", "t", "c", "h", ".", "j", "s" >>

\* The files below __dirname, each as its path segments.
ScriptFiles == { << AgentsDir, a \o JsSuffix >> : a \in Registry } \cup { << ScriptFile >> }

\* path.join normalises its result: "." and empty segments are dropped and
\* ".." takes the segment before it away (above __dirname it stays).
RECURSIVE NormalizeSegments(_, _)
NormalizeSegments(done, rest) ==
  IF rest = << >> THEN done
  ELSE IF Head(rest) \in { << >>, << "." >> } THEN NormalizeSegments(done, Tail(rest))
  ELSE IF Head(rest) = << ".", "." >> /\ done # << >> /\ done[Len(done)] # << ".", "." >>
  THEN NormalizeSegments(SubSeq(done, 1, Len(done) - 1), Tail(rest))
  ELSE NormalizeSegments(Append(done, Head(rest)), Tail(rest))

\* path.join(__dirname, 'agents', `${agentName}.js`), relative to __dirname.
AgentPath(agentName) ==
  NormalizeSegments(<< >>, << AgentsDir >> \o SplitAll(agentName \o JsSuffix, << "/" >>))

\* What running an agent can do: when the file of the path exists it is
\* loaded; a file of agents/ returns, throws an Error, or throws (rejects
\* with) null or undefined, a file from elsewhere is loaded and exports no
\* runAgent, so launchAgent throws "does not export"; when no file exists
\* launchAgent throws "not found".
AgentOutcomes(agentName) ==
  IF AgentPath(agentName) \notin ScriptFiles THEN {"missing"}
  ELSE IF Head(AgentPath(agentName)) = AgentsDir
  THEN {"returns", "throws", "throws_nullish"}
  ELSE {"loaded_outside"}

\* if (agentError): the caught value is truthy.
Truthy(outcome) == outcome \in {"throws", "missing", "loaded_outside"}

\* Lines 781-785: `${agentError.message}` in the catch block, outside its
\* inner try, throws a TypeError for a caught null or undefined; the finally
\* block runs and the TypeError leaves launchAgent.
CatchThrows(outcome) == outcome = "throws_nullish"

RunningLabel ==
  << "a", "g", "e", "n", "t", "w", "a", "t", "c", "h", ":",
     "r", "u", "n", "n", "i", "n", "g" >>
FailedLabel == << "a", "g", "e", "n", "t", ":", "f", "a", "i", "l", "e", "d" >>
SeenLabel(agentName) ==
  << "a", "g", "e", "n", "t", ":", "s", "e", "e", "n", ":" >> \o agentName
AgentwatchLabelPrefix == << "a", "g", "e", "n", "t", "w", "a", "t", "c", "h", ":" >>

\* The label the documentation tells users to put on a pull request.
UserLabel(agentName) == AgentwatchLabelPrefix \o agentName

VARIABLES
  comments,         \* the platform's comment history, in creation order
  labels,           \* the label set of every pull request and issue
  pc,               \* where each event handler is
  ev,               \* the event each handler is (or was last) handling
  queue,            \* the invocations the handler has still to launch
  agentError,       \* launchAgent's agentError of the running invocation
  invocations,      \* the invocations launched for the event, with their state
  posts,            \* the comments and replies written for the event
  watchPatterns,    \* the bindings table of the handler's last replay
  unwatchPatterns,  \* the exclusion sets of the handler's last replay
  arg,              \* the input a pure function is applied to
  ret               \* its result

vars == << comments, labels, pc, ev, queue, agentError, invocations, posts,
           watchPatterns, unwatchPatterns, arg, ret >>

\* The injective sequences over set S that enumerate it: the orders in which
\* the platform may return a list.
Orders(S) ==
  { f \in [1..Cardinality(S) -> S] : \A i, j \in 1..Cardinality(S) : f[i] = f[j] => i = j }

Comment(id, pr, kind, created_at, body, path) ==
  [id |-> id, pr |-> pr, kind |-> kind, created_at |-> created_at,
   body |-> body, path |-> path]

\* The context launchAgent gets; 0 and << >> stand for an absent field.
Context(file_path, pr_number, issue_number, comment_id, agent, args, trigger) ==
  [file_path |-> file_path, pr_number |-> pr_number, issue_number |-> issue_number,
   comment_id |-> comment_id, agent |-> agent, args |-> args, trigger |-> trigger]

\* issues.addLabels: fails (and the caller swallows it) for an absent target.
AddLabel(ls, target, label) ==
  IF target \in Targets THEN [ls EXCEPT ![target] = @ \cup {label}] ELSE ls

\* issues.removeLabel: fails (and the caller swallows it) for an absent
\* target or a label that is not on it.
RemoveLabel(ls, target, label) ==
  IF target \in Targets THEN [ls EXCEPT ![target] = @ \ {label}] ELSE ls

(***************************************************************************)
(* History replay (handleNewPR lines 555-625, handleWatchList 279-347)     *)
(***************************************************************************)

\* Map.set(key, value): an existing key keeps its place in the iteration
\* order, a new key goes to the end.
MapSet(table, key, value) ==
  IF \E i \in 1..Len(table) : table[i].pattern = key
  THEN [i \in 1..Len(table) |-> IF table[i].pattern = key THEN value ELSE table[i]]
  ELSE Append(table, value)

EmptyTables == [watch |-> << >>, unwatch |-> {}]

\* A fold that applies an unwatch command at replay time: it drops the
\* bindings of that agent and pattern made so far and keeps no exclusion; C6
\* tells it from FoldMatched.
FoldMatchedAtReplayTime(tab, c, unwatchMatch, watchMatch) ==
  IF unwatchMatch.ok
  THEN [tab EXCEPT !.watch =
          SelectSeq(@, LAMBDA b : ~(b.agent = unwatchMatch.agent
                                      /\ b.pattern = unwatchMatch.pattern))]
  ELSE IF watchMatch.ok
  THEN [tab EXCEPT !.watch =
          Append(SelectSeq(@, LAMBDA b : b.pattern # watchMatch.pattern),
                 [pattern |-> watchMatch.pattern, agent |-> watchMatch.agent,
                  args |-> watchMatch.args, sourcePR |-> c.pr])]
  ELSE tab

\* The body of the loop over one pull request's comments, given the two
\* regular expression matches of the comment's body.
FoldMatched(tab, c, unwatchMatch, watchMatch) ==
  IF unwatchMatch.ok
  THEN [tab EXCEPT !.unwatch = @ \cup {<< unwatchMatch.agent, unwatchMatch.pattern >>}]
  ELSE IF watchMatch.ok
  THEN [tab EXCEPT !.watch =
          MapSet(@, watchMatch.pattern,
                 [pattern |-> watchMatch.pattern, agent |-> watchMatch.agent,
                  args |-> watchMatch.args, sourcePR |-> c.pr])]
  ELSE tab

FoldComment(tab, c) == FoldMatched(tab, c, UnwatchMatch(c.body), WatchMatch(c.body))

RECURSIVE FoldComments(_, _)
FoldComments(tab, cs) ==
  IF cs = << >> THEN tab ELSE FoldComments(FoldComment(tab, Head(cs)), Tail(cs))

\* x put into the list after its first k elements.
InsertAt(list, x, k) == SubSeq(list, 1, k) \o << x >> \o SubSeq(list, k + 1, Len(list))

\* c put into a sorted list behind every comment that is not newer than it.
InsertByCreatedAt(sorted, c) ==
  InsertAt(sorted, c,
           Cardinality({ i \in 1..Len(sorted) : sorted[i].created_at <= c.created_at }))

\* allComments.sort((a, b) => new Date(a.created_at) - new Date(b.created_at)):
\* a stable sort on the creation time alone.
RECURSIVE SortByCreatedAt(_)
SortByCreatedAt(cs) ==
  IF Len(cs) <= 1 THEN cs
  ELSE InsertByCreatedAt(SortByCreatedAt(SubSeq(cs, 1, Len(cs) - 1)), cs[Len(cs)])

\* issues.listComments / pulls.listReviewComments of one pull request, in the
\* order `listing` in which the platform returns comments.
ListComments(history, listing, pr, kind) ==
  SelectSeq([i \in 1..Len(listing) |-> history[listing[i]]],
            LAMBDA c : c.pr = pr /\ c.kind = kind)

\* A loop body that gives up what the scan has gathered when the comments
\* of a pull request cannot be fetched; C13 tells it from ScanPR.
ScanPRLosingTables(tab, pr, history, listing, skip, unreadable) ==
  IF pr = skip THEN tab
  ELSE IF pr \in unreadable THEN EmptyTables
  ELSE FoldComments(tab,
         SortByCreatedAt(ListComments(history, listing, pr, "issue")
                           \o ListComments(history, listing, pr, "review")))

\* A loop body that lacks the skip of line 561 and folds the comments of the
\* pull request that was opened like any other's; C15 tells it from ScanPR.
ScanPRWithoutSkip(tab, pr, history, listing, skip, unreadable) ==
  IF pr \in unreadable THEN tab
  ELSE FoldComments(tab,
         SortByCreatedAt(ListComments(history, listing, pr, "issue")
                           \o ListComments(history, listing, pr, "review")))

\* The body of the loop over allPRs; skip is the pull request left out
\* (0: none), unreadable the pull requests whose comments cannot be fetched:
\* the fetch throws before any comment is folded and the catch goes on to
\* the next pull request.
ScanPR(tab, pr, history, listing, skip, unreadable) ==
  IF pr = skip THEN tab
  ELSE IF pr \in unreadable THEN tab
  ELSE FoldComments(tab,
         SortByCreatedAt(ListComments(history, listing, pr, "issue")
                           \o ListComments(history, listing, pr, "review")))

\* The loop over allPRs: prOrder is the order of [...openPRs, ...closedPRs].
RECURSIVE ScanPRs(_, _, _, _, _, _)
ScanPRs(tab, prOrder, history, listing, skip, unreadable) ==
  IF prOrder = << >> THEN tab
  ELSE ScanPRs(ScanPR(tab, Head(prOrder), history, listing, skip, unreadable),
               Tail(prOrder), history, listing, skip, unreadable)

Replay(prOrder, history, listing, skip, unreadable) ==
  ScanPRs(EmptyTables, prOrder, history, listing, skip, unreadable)

(***************************************************************************)
(* Matching (handleNewPR lines 636-687)                                    *)
(***************************************************************************)

\* Lines 646-655: the file is excluded for the agent.
Excluded(unwatch, agentName, file) ==
  \E e \in unwatch : e[1] = agentName /\ matchPattern(e[2], file)

\* A filter that lacks the exclusion test of lines 646-655; C8 tells it from
\* MatchingFiles.
MatchingFilesUnfiltered(files, binding, unwatch) ==
  SelectSeq(files, LAMBDA file : matchPattern(binding.pattern, file))

\* Lines 642-658: the files of the pull request a binding applies to.
MatchingFiles(files, binding, unwatch) ==
  SelectSeq(files, LAMBDA file :
    matchPattern(binding.pattern, file) /\ ~Excluded(unwatch, binding.agent, file))

Pairs(binding, matchingFiles) ==
  [i \in 1..Len(matchingFiles) |-> [file |-> matchingFiles[i], binding |-> binding]]

\* Every (binding, file) pair in the order the two loops visit them.
RECURSIVE Candidates(_, _, _)
Candidates(table, files, unwatch) ==
  IF table = << >> THEN << >>
  ELSE Pairs(Head(table), MatchingFiles(files, Head(table), unwatch))
         \o Candidates(Tail(table), files, unwatch)

\* const key = `${file}:${pattern.agent}`
Key(cand) == << cand.file, cand.binding.agent >>

\* A loop that lacks processedPatterns and launches every pair; C16 tells it
\* from DedupByKey.
LaunchEveryPair(cands, processed) == cands

\* processedPatterns: a pair whose key was seen is skipped.
RECURSIVE DedupByKey(_, _)
DedupByKey(cands, processed) ==
  IF cands = << >> THEN << >>
  ELSE IF Key(Head(cands)) \in processed THEN DedupByKey(Tail(cands), processed)
  ELSE << Head(cands) >> \o DedupByKey(Tail(cands), processed \cup {Key(Head(cands))})

\* Lines 667-678: the fileContext of each pair.
AutoContexts(pr, picked) ==
  [i \in 1..Len(picked) |->
     Context(picked[i].file, pr, 0, 0, picked[i].binding.agent,
             picked[i].binding.args, "auto_pattern_match")]

\* The invocations handleNewPR launches for pull request pr, in order.
NewPRQueue(tab, pr) ==
  AutoContexts(pr, DedupByKey(Candidates(tab.watch, PRFiles(pr), tab.unwatch), {}))

(***************************************************************************)
(* Event handlers                                                          *)
(***************************************************************************)

\* The event a handler works on: the handler's name, the pull request or
\* issue, the triggering comment (0: none), whether that is a review comment,
\* the handler's closing write ("none": it has none), and the pull requests
\* whose comments its replay could not fetch, and whether the handler has
\* thrown to the caller of handleAgentWatch.
Event(name, target, comment_id, review, confirm) ==
  [name |-> name, target |-> target, comment_id |-> comment_id,
   review |-> review, confirm |-> confirm, unreadable |-> {}, thrown |-> FALSE]

\* The platform rejects the writes (labels, comments, replies) made now.
WritesFail == arg.kind = "writes_fail"

\* The event of a handler that has thrown, if b.
Thrown(e, b) == [e EXCEPT !.thrown = b]

\* The event of a handler whose replay could not fetch the comments of the
\* pull requests in set S.
Unreadable(e, S) == [e EXCEPT !.unreadable = S]

NoEvent == Event("none", 0, 0, FALSE, "none")

CommentEvent(name, c, confirm) == Event(name, c.pr, c.id, c.kind = "review", confirm)

Post(op, target, msg) == [op |-> op, target |-> target, msg |-> msg]

\* The answer to a comment: a threaded reply when the comment carries a
\* pull_request_review_id, a general comment otherwise.
CommentPost(c, msg) == Post(IF c.kind = "review" THEN "reply" ELSE "comment", c.pr, msg)

\* A handler starts on event e with queue q of invocations to launch, the
\* replayed tables tab and the comments it has written so far.  With nothing
\* to launch it goes straight to its closing write, or returns.
Start(w, e, q, tab, written) ==
  /\ ev' = [ev EXCEPT ![w] = e]
  /\ queue' = [queue EXCEPT ![w] = q]
  /\ invocations' = [invocations EXCEPT ![w] = << >>]
  /\ posts' = [posts EXCEPT ![w] = IF WritesFail THEN << >> ELSE written]
  /\ agentError' = [agentError EXCEPT ![w] = FALSE]
  /\ watchPatterns' = [watchPatterns EXCEPT ![w] = tab.watch]
  /\ unwatchPatterns' = [unwatchPatterns EXCEPT ![w] = tab.unwatch]
  /\ pc' = [pc EXCEPT ![w] =
              IF q # << >> THEN "add_running"
              ELSE IF e.confirm # "none" THEN "finish" ELSE "idle"]

\* handleUnwatch, given the match of its regular expression: the message.
UnwatchMessage(unwatchMatch) ==
  IF ~unwatchMatch.ok THEN "usage"
  ELSE IF unwatchMatch.pattern = << "*" >> THEN "all_cleared" ELSE "unwatched"

\* handleUnwatch writes its answer and nothing else: the usage message
\* through postError, which swallows a failure of the write (lines 896-919),
\* the confirmation by a call of its own that no try block surrounds (lines
\* 432-448).
handleUnwatch(w, c) ==
  Start(w, Thrown(CommentEvent("unwatch", c, "none"),
                  WritesFail /\ UnwatchLiveMatch(c.body).ok),
        << >>, EmptyTables,
        << CommentPost(c, UnwatchMessage(UnwatchLiveMatch(c.body))) >>)

\* handleWatchList replays the history, in the orders the platform returns
\* pull requests and comments in, and posts the list.
handleWatchList(w, c, history) ==
  \E prOrder \in Orders(PRs), listing \in Orders(1..Len(history)),
     unreadable \in SUBSET PRs :
    Start(w, Unreadable(CommentEvent("list", c, "none"), unreadable), << >>,
          Replay(prOrder, history, listing, 0, unreadable),
          << CommentPost(c, "list") >>)

\* Lines 165-176: the fileContext of each target file.
ManualContexts(c, parsed, targetFiles) ==
  [i \in 1..Len(targetFiles) |->
     Context(targetFiles[i], c.pr, 0, c.id, parsed.agentName,
             parsed.argsString, "manual_command")]

\* Lines 160-248: the launches and the confirmation that follows them.
LaunchTargets(w, c, parsed, targetFiles) ==
  Start(w,
        CommentEvent("watch", c,
                     IF targetFiles # << >> THEN "confirm_executed"
                     ELSE "confirm_registered"),
        ManualContexts(c, parsed, targetFiles), EmptyTables, << >>)

\* Lines 109-147, given the parse of the command.
WatchCommand(w, c, parsed) ==
  IF ~parsed.ok
  THEN Start(w, CommentEvent("watch", c, "none"), << >>, EmptyTables,
             << CommentPost(c, "usage") >>)
  ELSE LaunchTargets(w, c, parsed,
                     SelectSeq(PRFiles(c.pr),
                               LAMBDA file : matchPattern(parsed.fileTarget, file)))

\* handleComment on comment c of a pull request; history includes c.
handleComment(w, c, history) ==
  IF ~Includes(c.body, AgentPrefix)
  THEN Start(w, CommentEvent("ignored", c, "none"), << >>, EmptyTables, << >>)
  ELSE IF Includes(c.body, UnwatchToken) THEN handleUnwatch(w, c)
  ELSE IF Includes(c.body, ListToken) THEN handleWatchList(w, c, history)
  ELSE WatchCommand(w, c, ParseWatchLive(c.body))

\* Lines 486-489: the review comments that hold a watch command and sit on a
\* changed file.
WatchComments(changedFiles, reviewComments) ==
  SelectSeq(reviewComments, LAMBDA c :
    /\ Includes(c.body, WatchToken)
    /\ \E i \in 1..Len(changedFiles) : changedFiles[i] = c.path)

\* Lines 495-514: the launch for one watch comment, if any.
FileChangeLaunch(pr, c, agentMatch) ==
  IF ~agentMatch.ok THEN << >>
  ELSE IF ~matchPattern(agentMatch.pattern, c.path) THEN << >>
  ELSE << Context(c.path, pr, 0, c.id, agentMatch.agent, agentMatch.args,
                  "file_change") >>

RECURSIVE FileChangeLaunches(_, _)
FileChangeLaunches(pr, watchComments) ==
  IF watchComments = << >> THEN << >>
  ELSE FileChangeLaunch(pr, Head(watchComments), WatchMatch(Head(watchComments).body))
         \o FileChangeLaunches(pr, Tail(watchComments))

\* A handleFileChanges that reads the review comments of every pull request;
\* C26 tells it from FileChangesQueue.
FileChangesQueueOfAllPRs(pr, prLabels, history, listing) ==
  IF { l \in prLabels : StartsWithAt(l, AgentwatchLabelPrefix, 1) } = {} THEN << >>
  ELSE FileChangeLaunches(pr,
         WatchComments(PRFiles(pr),
                       SelectSeq([i \in 1..Len(listing) |-> history[listing[i]]],
                                 LAMBDA c : c.kind = "review")))

\* handleFileChanges: the invocations of a synchronize event on a pull
\* request that carries the labels prLabels.
FileChangesQueue(pr, prLabels, history, listing) ==
  IF { l \in prLabels : StartsWithAt(l, AgentwatchLabelPrefix, 1) } = {} THEN << >>
  ELSE FileChangeLaunches(pr,
         WatchComments(PRFiles(pr), ListComments(history, listing, pr, "review")))

handleFileChanges(w, pr) ==
  \E listing \in Orders(1..Len(comments)) :
    Start(w, Event("synchronize", pr, 0, FALSE, "none"),
          FileChangesQueue(pr, labels[pr], comments, listing), EmptyTables, << >>)

\* Lines 627-713, given the replayed tables and the queue of launches.
NewPRLaunches(w, pr, tab, q, unreadable) ==
  Start(w, Unreadable(Event("opened", pr, 0, FALSE,
                            IF q # << >> THEN "summary" ELSE "none"), unreadable),
        q, tab, << >>)

NewPRMatch(w, pr, tab, unreadable) ==
  NewPRLaunches(w, pr, tab, IF tab.watch = << >> THEN << >> ELSE NewPRQueue(tab, pr),
                unreadable)

\* handleNewPR: replay, in the orders the platform returns pull requests and
\* comments in, then match the new pull request's files.
handleNewPR(w, pr) ==
  \E prOrder \in Orders(PRs), listing \in Orders(1..Len(comments)),
     unreadable \in SUBSET (PRs \ {pr}) :
    NewPRMatch(w, pr, Replay(prOrder, comments, listing, pr, unreadable), unreadable)

\* Lines 949-962, given the parse of the run command.
RunCommand(w, c, parsed) ==
  IF ~parsed.ok
  THEN Start(w, CommentEvent("run", c, "none"), << >>, EmptyTables,
             << Post("comment", c.pr, "usage") >>)
  ELSE Start(w, CommentEvent("run", c, "none"),
             << Context(<< >>, 0, c.pr, c.id, parsed.agentName,
                        parsed.argsString, "issue_command") >>,
             EmptyTables, << >>)

\* handleIssueComment on comment c of an issue.
handleIssueComment(w, c) ==
  IF ~Includes(c.body, RunToken)
  THEN Start(w, CommentEvent("run", c, "none"), << >>, EmptyTables, << >>)
  ELSE RunCommand(w, c, ParseRun(c.body))

\* handleAgentWatch on a comment event: a review comment, or an issue comment
\* (handled only on a pull request).
handleAgentWatch(w, c, history) ==
  IF c.kind = "review" \/ c.pr \in PRs
  THEN handleComment(w, c, history)
  ELSE Start(w, CommentEvent("ignored", c, "none"), << >>, EmptyTables, << >>)

(***************************************************************************)
(* Events                                                                  *)
(***************************************************************************)

\* The creation time of the next comment.
NextTime == IF comments = << >> THEN 1 ELSE comments[Len(comments)].created_at + 1

\* The comment the platform creates next.
NewComment(target, kind, path, body) ==
  Comment(Len(comments) + 1, target, kind, NextTime, body, path)

\* A comment is created and handleAgentWatch gets the event.
CommentCreated(w, target, kind, path, body) ==
  /\ pc[w] = "idle"
  /\ comments' = Append(comments, NewComment(target, kind, path, body))
  /\ handleAgentWatch(w, NewComment(target, kind, path, body),
                      Append(comments, NewComment(target, kind, path, body)))
  /\ UNCHANGED << labels, arg, ret >>

\* pull_request, action opened; the pull request may have got comments by the
\* time the handler runs.
PullRequestOpened(w, pr) ==
  /\ pc[w] = "idle"
  /\ handleNewPR(w, pr)
  /\ UNCHANGED << comments, labels, arg, ret >>

\* pull_request, action synchronize.
PullRequestSynchronize(w, pr) ==
  /\ pc[w] = "idle"
  /\ handleFileChanges(w, pr)
  /\ UNCHANGED << comments, labels, arg, ret >>

\* pull_request with an action other than opened and synchronize (closed,
\* edited, labeled, ...): handleAgentWatch falls through.
PullRequestOther(w, pr) ==
  /\ pc[w] = "idle"
  /\ Start(w, Event("ignored", pr, 0, FALSE, "none"), << >>, EmptyTables, << >>)
  /\ UNCHANGED << comments, labels, arg, ret >>

\* A comment is created on a plain issue and handleIssueComment gets it.
IssueCommentCreated(w, body) ==
  /\ pc[w] = "idle"
  /\ comments' = Append(comments, NewComment(PlainIssue, "issue", << >>, body))
  /\ handleIssueComment(w, NewComment(PlainIssue, "issue", << >>, body))
  /\ UNCHANGED << labels, arg, ret >>

\* A user puts the label agentwatch:<agent> on a pull request.
LabelAdded(pr, agentName) ==
  /\ \A w \in Workers : pc[w] = "idle"
  /\ UserLabel(agentName) \notin labels[pr]
  /\ labels' = AddLabel(labels, pr, UserLabel(agentName))
  /\ UNCHANGED << comments, pc, ev, queue, agentError, invocations, posts,
                  watchPatterns, unwatchPatterns, arg, ret >>

(***************************************************************************)
(* launchAgent, one action per call it awaits                              *)
(***************************************************************************)

\* const targetNumber = context.pr_number || context.issue_number
TargetNumber(context) ==
  IF context.pr_number # 0 THEN context.pr_number ELSE context.issue_number

\* createReplyForReviewComment succeeds when comment_id is a review comment
\* of pull request pr_number.
ReplyReaches(context) ==
  \E i \in 1..Len(comments) :
    /\ comments[i].id = context.comment_id
    /\ comments[i].kind = "review"
    /\ comments[i].pr = context.pr_number

\* The write of launchAgent's catch block (lines 787-808), if it succeeds.
ErrorReply(context) ==
  IF context.comment_id # 0
  THEN IF ReplyReaches(context)
       THEN << Post("reply", context.pr_number, "agent_error") >> ELSE << >>
  ELSE IF context.pr_number \in Targets
       THEN << Post("comment", context.pr_number, "agent_error") >> ELSE << >>

\* A launchAgent that starts the agent without the addLabels call of lines
\* 741-754; C37 tells it from LaunchAddRunning.
LaunchWithoutRunningLabel(w) ==
  /\ pc[w] = "add_running"
  /\ invocations' = [invocations EXCEPT ![w] =
                       Append(@, [context |-> Head(queue[w]), state |-> "running",
                                  propagates |-> FALSE, outcome |-> "none",
                                  calls |-> << "add_running" >>])]
  /\ agentError' = [agentError EXCEPT ![w] = FALSE]
  /\ pc' = [pc EXCEPT ![w] = "run_agent"]
  /\ UNCHANGED << comments, labels, ev, queue, posts, watchPatterns, unwatchPatterns,
                  arg, ret >>

\* Lines 741-754: the running label goes on the target.
LaunchAddRunning(w) ==
  /\ pc[w] = "add_running"
  /\ labels' = IF WritesFail THEN labels
               ELSE AddLabel(labels, TargetNumber(Head(queue[w])), RunningLabel)
  /\ invocations' = [invocations EXCEPT ![w] =
                       Append(@, [context |-> Head(queue[w]), state |-> "running",
                                  propagates |-> FALSE, outcome |-> "none",
                                  calls |-> << "add_running" >>])]
  /\ agentError' = [agentError EXCEPT ![w] = FALSE]
  /\ pc' = [pc EXCEPT ![w] = "run_agent"]
  /\ UNCHANGED << comments, ev, queue, posts, watchPatterns, unwatchPatterns, arg, ret >>

\* A launchAgent whose running label is taken off in the try body, after the
\* agent returned, and not in the finally block; C18 tells it from
\* LaunchRemoveRunning.
LaunchRemoveRunningOnSuccess(w) ==
  /\ pc[w] = "remove_running"
  /\ labels' = IF agentError[w] THEN labels
               ELSE RemoveLabel(labels, Head(queue[w]).pr_number, RunningLabel)
  /\ pc' = [pc EXCEPT ![w] = "terminal"]
  /\ UNCHANGED << comments, ev, queue, agentError, invocations, posts,
                  watchPatterns, unwatchPatterns, arg, ret >>

\* A launchAgent that is not awaited: it hands control back to the loop as
\* soon as the agent has been started; C17 tells it from LaunchRunAgent.
LaunchRunAgentNotAwaited(w) ==
  /\ pc[w] = "run_agent"
  /\ queue' = [queue EXCEPT ![w] = Tail(@)]
  /\ pc' = [pc EXCEPT ![w] =
              IF Tail(queue[w]) # << >> THEN "add_running"
              ELSE IF ev[w].confirm # "none" THEN "finish" ELSE "idle"]
  /\ UNCHANGED << comments, labels, ev, agentError, invocations, posts,
                  watchPatterns, unwatchPatterns, arg, ret >>

\* Lines 758-808: the agent is loaded and run; an error is caught, kept in
\* agentError and reported.  agentError[w] is the truth value of the
\* JavaScript agentError.
LaunchRunAgent(w) ==
  /\ pc[w] = "run_agent"
  /\ \E outcome \in AgentOutcomes(Head(queue[w]).agent) :
       /\ agentError' = [agentError EXCEPT ![w] = Truthy(outcome)]
       /\ posts' = [posts EXCEPT ![w] =
                      IF Truthy(outcome) /\ ~WritesFail
                      THEN @ \o ErrorReply(Head(queue[w])) ELSE @]
       /\ invocations' = [invocations EXCEPT
                            ![w][Len(invocations[w])].propagates = CatchThrows(outcome),
                            ![w][Len(invocations[w])].outcome = outcome,
                            ![w][Len(invocations[w])].calls = Append(@, "agent")]
  /\ pc' = [pc EXCEPT ![w] = "remove_running"]
  /\ UNCHANGED << comments, labels, ev, queue, watchPatterns,
                  unwatchPatterns, arg, ret >>

\* Lines 811-821: removeLabel({ issue_number: context.pr_number, ... }).
LaunchRemoveRunning(w) ==
  /\ pc[w] = "remove_running"
  /\ labels' = IF WritesFail THEN labels
               ELSE RemoveLabel(labels, Head(queue[w]).pr_number, RunningLabel)
  /\ invocations' = [invocations EXCEPT ![w][Len(invocations[w])].calls =
                       Append(@, "remove_running")]
  /\ pc' = [pc EXCEPT ![w] = "terminal"]
  /\ UNCHANGED << comments, ev, queue, agentError, posts,
                  watchPatterns, unwatchPatterns, arg, ret >>

\* What the caller's catch writes when launchAgent throws: handleComment
\* calls postError (lines 252-255), handleNewPR posts a comment (715-729),
\* handleFileChanges only logs (520-522), handleIssueComment has no catch.
CallerCatch(e) ==
  IF e.name \in {"watch", "opened"} THEN "handler_error" ELSE "none"

\* Lines 824-870: the terminal label (and, on failure, the error details);
\* launchAgent returns and the caller's loop goes on, or launchAgent throws
\* and the caller's loop is left.
LaunchTerminal(w) ==
  /\ pc[w] = "terminal"
  /\ labels' = IF WritesFail THEN labels
               ELSE AddLabel(labels, TargetNumber(Head(queue[w])),
                             IF agentError[w] THEN FailedLabel
                             ELSE SeenLabel(Head(queue[w]).agent))
  /\ posts' = [posts EXCEPT ![w] =
                 IF /\ agentError[w] /\ TargetNumber(Head(queue[w])) \in Targets
                    /\ ~WritesFail
                 THEN Append(@, Post("comment", TargetNumber(Head(queue[w])),
                                     "agent_failed"))
                 ELSE @]
  /\ invocations' = [invocations EXCEPT
                       ![w][Len(invocations[w])].state =
                         IF agentError[w] THEN "failed" ELSE "seen",
                       ![w][Len(invocations[w])].calls =
                         Append(@, IF agentError[w] THEN "add_failed" ELSE "add_seen")]
  /\ IF invocations[w][Len(invocations[w])].propagates
     THEN /\ queue' = [queue EXCEPT ![w] = << >>]
          /\ ev' = [ev EXCEPT ![w].confirm = CallerCatch(ev[w])]
          /\ pc' = [pc EXCEPT ![w] =
                      IF CallerCatch(ev[w]) # "none" THEN "finish" ELSE "idle"]
     ELSE /\ queue' = [queue EXCEPT ![w] = Tail(@)]
          /\ ev' = ev
          /\ pc' = [pc EXCEPT ![w] =
                      IF Tail(queue[w]) # << >> THEN "add_running"
                      ELSE IF ev[w].confirm # "none" THEN "finish" ELSE "idle"]
  /\ UNCHANGED << comments, agentError, watchPatterns, unwatchPatterns, arg, ret >>

\* The handler's closing write: the confirmation of a watch command
\* (handleComment lines 184-248), the summary of handleNewPR (689-709), or
\* the error message of the handler's catch.  When the platform rejects the
\* write: handleComment's catch calls postError, which swallows the failure;
\* handleNewPR's catch posts its error comment with no try block around it
\* (lines 719-728), that write is rejected too and handleNewPR throws.
Finish(w) ==
  /\ pc[w] = "finish"
  /\ posts' = [posts EXCEPT ![w] =
                 IF WritesFail THEN @
                 ELSE Append(@, Post(IF ev[w].review THEN "reply" ELSE "comment",
                                     ev[w].target, ev[w].confirm))]
  /\ ev' = [ev EXCEPT ![w].thrown = WritesFail /\ ev[w].name = "opened"]
  /\ pc' = [pc EXCEPT ![w] = "idle"]
  /\ UNCHANGED << comments, labels, queue, agentError, invocations,
                  watchPatterns, unwatchPatterns, arg, ret >>

Launch(w) ==
  \/ LaunchAddRunning(w)
  \/ LaunchRunAgent(w)
  \/ LaunchRemoveRunning(w)
  \/ LaunchTerminal(w)
  \/ Finish(w)

(***************************************************************************)
(* The event-driven system: comments arrive, pull requests are labelled    *)
(* and synchronized, one event is handled at a time                        *)
(***************************************************************************)

P_js == << "*", ".", "j", "s" >>
Hello == << "h", "e", "l", "l", "o" >>

WatchCmd(pattern, agentName) == WatchToken \o << " " >> \o pattern \o << " " >> \o agentName
UnwatchCmd(agentName, pattern) == UnwatchToken \o << " " >> \o agentName \o << " " >> \o pattern
RunCmd(agentName) == RunToken \o << " " >> \o agentName

\* The comment bodies users post.
LiveBodies ==
  { WatchCmd(P_js, Echo), WatchCmd(P_js, Ghost), UnwatchCmd(Echo, P_js), Hello }
RunBodies == { RunCmd(Echo), RunCmd(Ghost) }

NoArg == [kind |-> "none"]
NoRet == [done |-> FALSE]

Idle ==
  /\ labels = [t \in Targets |-> {}]
  /\ pc = [w \in Workers |-> "idle"]
  /\ ev = [w \in Workers |-> NoEvent]
  /\ queue = [w \in Workers |-> << >>]
  /\ agentError = [w \in Workers |-> FALSE]
  /\ invocations = [w \in Workers |-> << >>]
  /\ posts = [w \in Workers |-> << >>]
  /\ watchPatterns = [w \in Workers |-> << >>]
  /\ unwatchPatterns = [w \in Workers |-> {}]

Init ==
  /\ comments = << >>
  /\ Idle
  /\ arg = NoArg
  /\ ret = NoRet

Next ==
  \/ \E body \in LiveBodies, target \in Targets :
       Len(comments) < MaxComments /\ CommentCreated(1, target, "issue", << >>, body)
  \/ \E body \in LiveBodies, pr \in PRs :
       \E i \in 1..Len(PRFiles(pr)) :
         Len(comments) < MaxComments
           /\ CommentCreated(1, pr, "review", PRFiles(pr)[i], body)
  \/ \E pr \in PRs : PullRequestSynchronize(1, pr)
  \/ \E pr \in PRs : LabelAdded(pr, Echo)
  \/ \E body \in RunBodies :
       Len(comments) < MaxComments /\ IssueCommentCreated(1, body)
  \/ Launch(1)

Spec == Init /\ [][Next]_vars

(***************************************************************************)
(* Replay: a repository whose pull requests already carry a comment        *)
(* history gets one event that replays it, a pull request being opened     *)
(* (handleNewPR) or a list command (handleWatchList)                       *)
(***************************************************************************)

UnwatchAll == UnwatchToken \o << " ", "*" >>

\* The comment bodies of the history.
ReplayBodies ==
  { WatchCmd(P_js, Echo), WatchCmd(P_js, Lint), UnwatchCmd(Echo, P_js), UnwatchAll,
    WatchCmd(F_a_js, Echo) \o << " ", "v" >> }

\* The histories: comment i has identifier i; creation times do not decrease
\* with the identifier and two comments may share one (a second's resolution).
Histories ==
  UNION { { h \in [1..n -> [id : 1..n, pr : PRs, kind : {"issue"},
                            created_at : 1..n, body : ReplayBodies, path : {<< >>}]] :
              /\ \A i \in 1..n : h[i].id = i
              /\ n > 0 => h[1].created_at = 1
              /\ \A i \in 1..(n - 1) :
                   h[i + 1].created_at \in {h[i].created_at, h[i].created_at + 1} }
          : n \in 0..MaxHistory }

InitReplay ==
  /\ comments \in Histories
  /\ Idle
  /\ arg = NoArg
  /\ ret = NoRet

NextReplay ==
  \/ \E pr \in PRs : ev[1] = NoEvent /\ PullRequestOpened(1, pr)
  \/ \E pr \in PRs :
       ev[1] = NoEvent /\ CommentCreated(1, pr, "issue", << >>, ListToken)
  \/ Launch(1)

SpecReplay == InitReplay /\ [][NextReplay]_vars

(***************************************************************************)
(* Live events: comments with and without commands, well-formed or not,    *)
(* and pull request events the router does not handle                      *)
(***************************************************************************)

\* Watch commands that lack the pattern, the agent, or both.
MalformedBodies ==
  { WatchToken,
    WatchToken \o << " " >> \o P_js,
    WatchToken \o << " ", "-", "-", "p", "e", "r", "s", "i", "s", "t", " " >> \o P_js,
    WatchToken \o << " " >> \o P_js \o ArgSeparator \o << "-", "-", "s" >> }

\* An agent name that is a path: from agents/ up to the script itself.
Sibling == << ".", ".", "/", "a", "g", "e", "n", "t", "w", "a", "t", "c", "h" >>

\* A comment that mentions a user whose name starts with "agent-".
Mention == << "c", "c", " " >> \o AgentPrefix \o << "s", "m", "i", "t", "h" >>

\* Unwatch commands: complete, with one argument, with none.
UnwatchBodies ==
  { UnwatchCmd(Echo, P_js), UnwatchToken \o << " " >> \o Echo, UnwatchToken }

EventBodies ==
  MalformedBodies \cup UnwatchBodies
    \cup { Mention, Hello, WatchCmd(P_js, Echo), RunCmd(Echo) \o ArgSeparator \o << "v" >>,
           WatchCmd(P_js, Sibling), WatchCmd(P_js, Ghost) }

NextLive ==
  \/ \E body \in EventBodies, target \in Targets :
       Len(comments) < MaxComments /\ CommentCreated(1, target, "issue", << >>, body)
  \/ \E pr \in PRs : PullRequestOther(1, pr)
  \/ Launch(1)

SpecLive == Init /\ [][NextLive]_vars

(***************************************************************************)
(* Overlap: two workflow runs handle events at the same time               *)
(***************************************************************************)

\* The comment bodies users post while another event is being handled.
OverlapBodies == { WatchCmd(P_js, Echo), WatchCmd(P_js, Ghost) }

\* A run handles the event of a comment, a run launches the agents of its
\* event; the steps of the two runs interleave.
NextOverlap ==
  \/ \E w \in Workers, body \in OverlapBodies, pr \in PRs :
       /\ Len(comments) < MaxComments
       /\ ev[w] = NoEvent
       /\ CommentCreated(w, pr, "issue", << >>, body)
  \/ \E w \in Workers : Launch(w)

SpecOverlap == Init /\ [][NextOverlap]_vars

(***************************************************************************)
(* The live parse of a watch command, applied to comment bodies that are   *)
(* put together from a pattern, an agent name and what follows them        *)
(***************************************************************************)

\* The most blanks between two words of a command.
MaxGap == 2

P_src_ts == << "s", "r", "c", "/", "*", "*", "/", "*", ".", "t", "s" >>
Typecheck == << "t", "y", "p", "e", "c", "h", "e", "c", "k" >>
CodeReview == << "c", "o", "d", "e", "-", "r", "e", "v", "i", "e", "w" >>
Persist == << "-", "-", "p", "e", "r", "s", "i", "s", "t" >>
Strict == << "-", "-", "s", "t", "r", "i", "c", "t" >>

Blanks(n) == [i \in 1..n |-> " "]

\* What a user writes after the agent name.
CommandTails ==
  { << >>,
    ArgSeparator \o Strict,
    << " " >> \o Strict,
    ArgSeparator \o << "a" >> \o ArgSeparator \o << "b" >>,
    << " ", "a", " ", " ", "b" >>,
    ArgSeparator \o << " ", "x", " " >> }

\* [options] <pattern> <agent>, the words gap blanks apart.
WatchWords(option, pattern, agentName, gap) ==
  (IF option = << >> THEN << >> ELSE option \o Blanks(gap))
    \o pattern \o Blanks(gap) \o agentName

WatchInputs ==
  { [kind |-> "watch", option |-> option, pattern |-> pattern, agent |-> agentName,
     tail |-> tail,
     comment |-> WatchToken \o Blanks(gap)
                   \o WatchWords(option, pattern, agentName, gap) \o tail] :
      option \in {<< >>, Persist}, pattern \in {P_js, P_src_ts},
      agentName \in {Echo, Typecheck, CodeReview}, gap \in 1..MaxGap, tail \in CommandTails }

InitParse ==
  /\ comments = << >>
  /\ Idle
  /\ arg \in WatchInputs
  /\ ret = NoRet

\* handleComment parses the comment; handleNewPR, handleWatchList and
\* handleFileChanges parse the same comment with their regular expression.
ParseStep ==
  /\ ~ret.done
  /\ ret' = [done |-> TRUE, parsed |-> ParseWatchLive(arg.comment),
             replayed |-> WatchMatch(arg.comment)]
  /\ UNCHANGED << comments, labels, pc, ev, queue, agentError, invocations, posts,
                  watchPatterns, unwatchPatterns, arg >>

NextParse == ParseStep

SpecParse == InitParse /\ [][NextParse]_vars

(***************************************************************************)
(* matchPattern, applied to patterns and paths                             *)
(***************************************************************************)

\* The most directories a path has above its file.
MaxDepth == 2

Dirs == { << "s", "r", "c" >>, << "l", "i", "b" >> }
FileNames == { F_a_js, F_b_py, << "x", ".", "t", "s" >> }

\* The directory prefixes of depth at most n, each ending in "/".
RECURSIVE DirPrefixes(_)
DirPrefixes(n) ==
  IF n = 0 THEN { << >> }
  ELSE { << >> } \cup { d \o << "/" >> \o rest : d \in Dirs, rest \in DirPrefixes(n - 1) }

\* The paths of the documented examples.
F_b_js == << "b", ".", "j", "s" >>
F_c_js == << "c", ".", "j", "s" >>
F_a_b_js == << "a", "/", "b", ".", "j", "s" >>
F_a_b_c_js == << "a", "/", "b", "/", "c", ".", "j", "s" >>
F_src_a_b_c_ts == << "s", "r", "c", "/", "a", "/", "b", "/", "c", ".", "t", "s" >>
\* A file whose name is not a valid character class.
F_z_to_a == << "[", "z", "-", "a", "]" >>
ExamplePaths == { F_b_js, F_c_js, F_a_b_js, F_a_b_c_js, F_src_a_b_c_ts, F_z_to_a }

Paths ==
  { prefix \o name : prefix \in DirPrefixes(MaxDepth), name \in FileNames }
    \cup ExamplePaths

P_any_js == << "*", "*", "/", "*", ".", "j", "s" >>
P_src_js == << "s", "r", "c", "/", "*", ".", "j", "s" >>
P_a_or_b_js == << "{", "a", ",", "b", "}", ".", "j", "s" >>
P_a_b_or_c_js == << "{", "a", ",", "b", ",", "c", "}", ".", "j", "s" >>

Patterns ==
  { << "*" >>, P_js, P_src_ts, F_a_js, P_any_js, P_src_js,
    << "?", ".", "j", "s" >>,
    << "[", "a", "b", "]", ".", "j", "s" >>,
    P_a_or_b_js, P_a_b_or_c_js,
    \* new RegExp throws on these two
    << "[" >>, F_z_to_a }

InitMatch ==
  /\ comments = << >>
  /\ Idle
  /\ arg \in [kind : {"match"}, pattern : Patterns, filepath : Paths]
  /\ ret = NoRet

\* A caller applies matchPattern.
MatchStep ==
  /\ ~ret.done
  /\ ret' = [done |-> TRUE, matches |-> matchPattern(arg.pattern, arg.filepath)]
  /\ UNCHANGED << comments, labels, pc, ev, queue, agentError, invocations, posts,
                  watchPatterns, unwatchPatterns, arg >>

NextMatch == MatchStep

SpecMatch == InitMatch /\ [][NextMatch]_vars


(***************************************************************************)
(* Properties of launchAgent's labels (Spec)                               *)
(***************************************************************************)

\* The invocation launchAgent was last called for in the event being handled.
LastInvocation == invocations[1][Len(invocations[1])]

\* launchAgent has returned from an invocation and no other has started.
JustCompleted == invocations[1] # << >> /\ LastInvocation.state # "running"

\* C1: whenever an invocation on a pull request has just completed (the agent
\* returned, threw, or was not found), the running label is absent from that
\* pull request and exactly one of agent:seen:<agent> and agent:failed is on
\* it, whatever earlier invocations left there.
C1_OneTerminalLabel ==
  (JustCompleted /\ LastInvocation.context.pr_number \in PRs) =>
    /\ RunningLabel \notin labels[LastInvocation.context.pr_number]
    /\ Cardinality(labels[LastInvocation.context.pr_number]
                     \cap {SeenLabel(LastInvocation.context.agent), FailedLabel}) = 1

\* C2: once launchAgent has returned, the running label it put on its target
\* (the pull request, or the issue of a run command) is no longer on that
\* target, whichever way the agent ended.
C2_RunningLabelRemoved ==
  JustCompleted => RunningLabel \notin labels[TargetNumber(LastInvocation.context)]

\* The comments on pull request pr are one `@agent-watch *.js echo` comment.
WatchedByEchoOnly(pr) ==
  /\ Cardinality({ i \in 1..Len(comments) : comments[i].pr = pr }) = 1
  /\ \E i \in 1..Len(comments) :
       comments[i].pr = pr /\ comments[i].body = WatchCmd(P_js, Echo)

\* C7: after `watch *.js echo` has been handled on a pull request, a
\* synchronize event on that pull request with files [a.js, b.py] launches
\* exactly one invocation, agent echo on a.js.
C7_SynchronizeLaunchesEcho ==
  ( /\ ev[1].name = "synchronize"
    /\ pc[1] = "idle"
    /\ PRFiles(ev[1].target) = << F_a_js, F_b_py >>
    /\ WatchedByEchoOnly(ev[1].target) ) =>
    /\ Len(invocations[1]) = 1
    /\ invocations[1][1].context.file_path = F_a_js
    /\ invocations[1][1].context.agent = Echo

(***************************************************************************)
(* Properties of the replay (SpecReplay)                                   *)
(***************************************************************************)

\* A pull request was opened and the replay for it read every comment: every
\* fetch succeeded and the pull request has no comments of its own.
Bootstrapped ==
  /\ ev[1].name = "opened"
  /\ ev[1].unreadable = {}
  /\ \A i \in 1..Len(comments) : comments[i].pr # ev[1].target

\* The handler has replayed the whole history; the tables are in
\* watchPatterns[1] and unwatchPatterns[1].
Replayed == Bootstrapped \/ (ev[1].name = "list" /\ ev[1].unreadable = {})

\* What a comment of the history is, by the replay's own regular expressions.
IsUnwatch(c) == UnwatchMatch(c.body).ok
IsWatch(c) == ~IsUnwatch(c) /\ WatchMatch(c.body).ok
IsUnwatchAll(c) ==
  UnwatchLiveMatch(c.body).ok /\ UnwatchLiveMatch(c.body).pattern = << "*" >>

WatchPattern(c) == WatchMatch(c.body).pattern
WatchAgent(c) == WatchMatch(c.body).agent

History == { comments[i] : i \in 1..Len(comments) }

\* The replayed table maps pattern p to agent a.
Binds(p, a) ==
  \E k \in 1..Len(watchPatterns[1]) :
    watchPatterns[1][k].pattern = p /\ watchPatterns[1][k].agent = a

\* The replayed table has a binding for pattern p.
Bound(p) == \E k \in 1..Len(watchPatterns[1]) : watchPatterns[1][k].pattern = p

\* C3: if the history holds Watch(p, A) and a newer Watch(p, B), on one pull
\* request or on two, and B's is the newest watch of p, the replayed table
\* maps p to B.
C3_NewestWatchWins ==
  Replayed =>
    \A a, b \in History :
      ( /\ IsWatch(a) /\ IsWatch(b)
        /\ WatchPattern(a) = WatchPattern(b)
        /\ a.created_at < b.created_at
        /\ \A c \in History \ {b} :
             (IsWatch(c) /\ WatchPattern(c) = WatchPattern(b))
               => c.created_at < b.created_at )
        => Binds(WatchPattern(b), WatchAgent(b))

\* The comments of set S in the one global order: by creation time, ties
\* broken by identifier.
Earliest(S) ==
  CHOOSE c \in S :
    \A d \in S : c.created_at < d.created_at
                   \/ (c.created_at = d.created_at /\ c.id <= d.id)

RECURSIVE GlobalOrder(_)
GlobalOrder(S) ==
  IF S = {} THEN << >> ELSE << Earliest(S) >> \o GlobalOrder(S \ {Earliest(S)})

\* The tables the fold yields on the history in the global order.
GlobalTables == FoldComments(EmptyTables, GlobalOrder(History))

\* The bindings of a table: pattern, agent and args.
Bindings(table) ==
  { [pattern |-> table[k].pattern, agent |-> table[k].agent, args |-> table[k].args] :
      k \in 1..Len(table) }

\* C4: the replayed bindings and exclusions are those of one fold over all
\* comments of all pull requests in the global order (creation time, then
\* identifier), in whatever order the platform returned pull requests and
\* comments.
C4_GlobalOrderFold ==
  Replayed =>
    /\ Bindings(watchPatterns[1]) = Bindings(GlobalTables.watch)
    /\ unwatchPatterns[1] = GlobalTables.unwatch

\* C5: an unwatch-all command (`@agent-unwatch *`) removes every binding made
\* before it from the replayed table, and a watch command made after it is in
\* the table.
C5_UnwatchAllClears ==
  Replayed =>
    /\ \A k \in 1..Len(watchPatterns[1]) :
         \E c \in History :
           /\ IsWatch(c) /\ WatchPattern(c) = watchPatterns[1][k].pattern
           /\ ~\E u \in History : IsUnwatchAll(u) /\ u.created_at > c.created_at
    /\ \A c \in History :
         (IsWatch(c) /\ \A u \in History : IsUnwatchAll(u) => u.created_at < c.created_at)
           => Bound(WatchPattern(c))

\* The invocations of the event being handled: launched, and still to launch.
Launches ==
  { invocations[1][k].context : k \in 1..Len(invocations[1]) }
    \cup { queue[1][k] : k \in 1..Len(queue[1]) }

\* The history holds an unwatch u of an agent and, later, a watch c of that
\* agent, and both patterns match file f (by matchPattern).
ExcludedThenWatched(u, c, f) ==
  /\ IsUnwatch(u) /\ IsWatch(c)
  /\ u.id < c.id
  /\ UnwatchMatch(u.body).agent = WatchAgent(c)
  /\ matchPattern(UnwatchMatch(u.body).pattern, f)
  /\ matchPattern(WatchPattern(c), f)

OpenedFiles == { PRFiles(ev[1].target)[k] : k \in 1..Len(PRFiles(ev[1].target)) }

\* C6: if the history holds Unwatch(A, e) and, later, a watch for agent A
\* whose pattern matches file f, and e matches f, then a pull request opened
\* with f in it gets no invocation of A on f.
C6_ExclusionOutlivesRebind ==
  Bootstrapped =>
    \A u, c \in History :
      \A f \in OpenedFiles :
        ExcludedThenWatched(u, c, f) =>
          ~\E l \in Launches : l.agent = WatchAgent(c) /\ l.file_path = f

\* C6 happens: a pull request was opened and handled, the rebinding watch is
\* in the table, and a file of the pull request is matched by it and excluded.
C6_Witness ==
  /\ Bootstrapped
  /\ pc[1] = "idle"
  /\ \E u, c \in History :
       \E f \in OpenedFiles :
         /\ ExcludedThenWatched(u, c, f)
         /\ Binds(WatchPattern(c), WatchAgent(c))
         /\ ~\E l \in Launches : l.agent = WatchAgent(c) /\ l.file_path = f

\* The history is `watch *.js echo` followed by `unwatch echo *.js`.
WatchThenUnwatch ==
  /\ Len(comments) = 2
  /\ comments[1].body = WatchCmd(P_js, Echo)
  /\ comments[2].body = UnwatchCmd(Echo, P_js)

\* C8: with the history `watch *.js echo`, `unwatch echo *.js`, opening a
\* pull request whose only file is a.js launches nothing.
C8_UnwatchedLaunchesNothing ==
  ( /\ Bootstrapped
    /\ PRFiles(ev[1].target) = << F_a_js >>
    /\ WatchThenUnwatch ) => Launches = {}

\* C8 happens: that pull request was opened and handled, and the replay found
\* both the binding and the exclusion.
C8_Witness ==
  /\ Bootstrapped
  /\ pc[1] = "idle"
  /\ PRFiles(ev[1].target) = << F_a_js >>
  /\ WatchThenUnwatch
  /\ Binds(P_js, Echo)
  /\ << Echo, P_js >> \in unwatchPatterns[1]
  /\ Launches = {}

(***************************************************************************)
(* Properties of the live parse (SpecParse) and of matchPattern (SpecMatch) *)
(***************************************************************************)

\* The args a command has by its text: what follows the first " @ ", or,
\* with no separator, what follows the agent name; trimmed.
ArgsOfTail(tail) ==
  IF Includes(tail, ArgSeparator)
  THEN Trim(SliceFrom(tail, IndexOf(tail, ArgSeparator) + Len(ArgSeparator)))
  ELSE Trim(tail)

\* C9: a watch command parses to its pattern, its agent name and, as args,
\* exactly the text after the " @ " separator (with no separator, the text
\* after the agent name), trimmed; `@agent-watch src/**/*.ts typecheck @
\* --strict` gives src/**/*.ts, typecheck and --strict.
C9_ArgsAreTheTextAfterSeparator ==
  ret.done =>
    /\ ret.parsed.ok
    /\ ret.parsed.fileTarget = arg.pattern
    /\ ret.parsed.agentName = arg.agent
    /\ ret.parsed.argsString = ArgsOfTail(arg.tail)

\* C10: the pattern "*" matches every path, paths with "/" in them included.
C10_StarMatchesEveryPath ==
  (ret.done /\ arg.pattern = << "*" >>) => ret.matches

\* C10 happens: matchPattern was applied to "*" and a path with a directory.
C10_Witness ==
  /\ ret.done
  /\ arg.pattern = << "*" >>
  /\ Includes(arg.filepath, << "/" >>)
  /\ ret.matches


\* The number of path separators in a text.
Separators(s) == Cardinality(Occurrences(s, << "/" >>))

\* C11: a single "*" inside a longer pattern matches no path separator (a
\* path that *.js or src/*.js matches has exactly the pattern's separators,
\* so "*.js" does not match a/b.js), while "**" does: "**/*.js" matches
\* a/b.js.
C11_StarStaysInSegment ==
  ret.done =>
    /\ (arg.pattern \in {P_js, P_src_js} /\ ret.matches)
         => Separators(arg.filepath) = Separators(arg.pattern)
    /\ (arg.pattern = P_js /\ arg.filepath = F_a_b_js) => ~ret.matches
    /\ (arg.pattern = P_any_js /\ arg.filepath = F_a_b_js) => ret.matches

\* C11 happens: matchPattern was applied to "**/*.js" and a/b.js and matched.
C11_Witness ==
  /\ ret.done
  /\ arg.pattern = P_any_js
  /\ arg.filepath = F_a_b_js
  /\ ret.matches

\* C12: "{a,b}.js" matches a.js and b.js and does not match c.js.
C12_BracesSelectAlternatives ==
  (ret.done /\ arg.pattern = P_a_or_b_js) =>
    /\ arg.filepath \in {F_a_js, F_b_js} => ret.matches
    /\ arg.filepath = F_c_js => ~ret.matches

(***************************************************************************)
(* Properties of a replay in which fetches fail (SpecReplay)               *)
(***************************************************************************)

\* The history without the comments of the pull requests that could not be
\* fetched.
Readable == SelectSeq(comments, LAMBDA c : c.pr \notin ev[1].unreadable)

\* The pull request a replay leaves out: the one that was opened.
Skipped == IF ev[1].name = "opened" THEN ev[1].target ELSE 0

\* The tables the handler has replayed.
ReplayedTables == [watch |-> watchPatterns[1], unwatch |-> unwatchPatterns[1]]

\* The invocations of the event being handled, launched and still to launch,
\* in order; the one launchAgent is working on is still the head of the queue.
LaunchSeq ==
  [k \in 1..Len(invocations[1]) |-> invocations[1][k].context]
    \o (IF pc[1] \in {"run_agent", "remove_running", "terminal"}
        THEN Tail(queue[1]) ELSE queue[1])

\* The invocations handleNewPR queues for the tables it has replayed.
QueuedForNewPR ==
  IF watchPatterns[1] = << >> THEN << >>
  ELSE NewPRQueue(ReplayedTables, ev[1].target)

\* C13: when the comments of some pull requests cannot be fetched, the
\* replayed tables are those of a replay of the history without these pull
\* requests, and the event goes on: for an opened pull request the handler
\* queues the launches these tables give, a list command gets its list.
C13_UnreadablePRIsSkipped ==
  ev[1].name \in {"opened", "list"} =>
    /\ \E prOrder \in Orders(PRs), listing \in Orders(1..Len(Readable)) :
         Replay(prOrder, Readable, listing, Skipped, {}) = ReplayedTables
    /\ (ev[1].name = "opened" /\ invocations[1] = << >>) =>
         queue[1] = QueuedForNewPR
    /\ ev[1].name = "list" =>
         posts[1] = << Post("comment", ev[1].target, "list") >>

\* C13 happens: a pull request was opened and handled, the comments of a
\* pull request that holds a watch command could not be fetched, and the
\* table has a binding from another pull request.
C13_Witness ==
  /\ ev[1].name = "opened"
  /\ pc[1] = "idle"
  /\ \E c \in History : c.pr \in ev[1].unreadable /\ IsWatch(c)
  /\ \E k \in 1..Len(watchPatterns[1]) :
       watchPatterns[1][k].sourcePR \notin ev[1].unreadable

(***************************************************************************)
(* Properties of the launch loop                                           *)
(***************************************************************************)

\* C14: launchAgent never throws to its caller, whatever the agent does, and
\* when the handling of an opened pull request has ended every invocation it
\* queued has been started, in order.
C14_FailureStaysInInvocation ==
  /\ \A k \in 1..Len(invocations[1]) :
       invocations[1][k].state # "running" => ~invocations[1][k].propagates
  /\ (ev[1].name = "opened" /\ pc[1] = "idle") => LaunchSeq = QueuedForNewPR

\* The comments that are on other pull requests than the one the event is
\* about, and could be fetched.
OnOtherPRs == SelectSeq(Readable, LAMBDA c : c.pr # ev[1].target)

\* C15: the tables replayed for a pull request that was opened are those of
\* a replay of the comments on other pull requests alone: no comment on the
\* pull request itself has a part in them.
C15_OwnCommentsDoNotCount ==
  ev[1].name = "opened" =>
    \E prOrder \in Orders(PRs), listing \in Orders(1..Len(OnOtherPRs)) :
      Replay(prOrder, OnOtherPRs, listing, 0, {}) = ReplayedTables

\* C15 happens: a pull request that carries a watch command of its own was
\* opened and handled, and the table, which has a binding from another pull
\* request, does not have that command's.
C15_Witness ==
  /\ ev[1].name = "opened"
  /\ pc[1] = "idle"
  /\ watchPatterns[1] # << >>
  /\ \E c \in History :
       /\ c.pr = ev[1].target
       /\ IsWatch(c)
       /\ ~Binds(WatchPattern(c), WatchAgent(c))

\* Binding k of the replayed table selects file f: its pattern matches f and
\* no exclusion of its agent does.
Selects(k, f) ==
  /\ matchPattern(watchPatterns[1][k].pattern, f)
  /\ ~Excluded(unwatchPatterns[1], watchPatterns[1][k].agent, f)

\* The first binding, in the table's stored order, of agent a that selects f.
FirstBinding(f, a) ==
  watchPatterns[1][LeastOrZero({ k \in 1..Len(watchPatterns[1]) :
                                   watchPatterns[1][k].agent = a /\ Selects(k, f) })]

\* launchAgent has thrown to the handler, which has left its loop.
LoopLeft == \E k \in 1..Len(invocations[1]) : invocations[1][k].propagates

\* C16: a pull request that is opened gets at most one invocation per file
\* and agent; a file that bindings of an agent select gets one, and it has
\* the args of the first of these bindings in the table's stored order.
C16_OneLaunchPerFileAndAgent ==
  ev[1].name = "opened" =>
    /\ \A i, j \in 1..Len(LaunchSeq) :
         (LaunchSeq[i].file_path = LaunchSeq[j].file_path
            /\ LaunchSeq[i].agent = LaunchSeq[j].agent) => i = j
    /\ \A i \in 1..Len(LaunchSeq) :
         LaunchSeq[i].args = FirstBinding(LaunchSeq[i].file_path, LaunchSeq[i].agent).args
    /\ ~LoopLeft =>
         \A f \in OpenedFiles :
           \A k \in 1..Len(watchPatterns[1]) :
             Selects(k, f) =>
               \E i \in 1..Len(LaunchSeq) :
                 /\ LaunchSeq[i].file_path = f
                 /\ LaunchSeq[i].agent = watchPatterns[1][k].agent

\* C16 happens: a pull request was opened and handled, two bindings of one
\* agent with different patterns and args select one of its files, and the
\* file got that agent once, with the args of the first.
C16_Witness ==
  /\ ev[1].name = "opened"
  /\ pc[1] = "idle"
  /\ ~LoopLeft
  /\ \E f \in OpenedFiles :
       \E j, k \in 1..Len(watchPatterns[1]) :
         /\ j < k
         /\ watchPatterns[1][j].agent = watchPatterns[1][k].agent
         /\ watchPatterns[1][j].pattern # watchPatterns[1][k].pattern
         /\ watchPatterns[1][j].args # watchPatterns[1][k].args
         /\ Selects(j, f) /\ Selects(k, f)
         /\ Cardinality({ i \in 1..Len(LaunchSeq) :
                            /\ LaunchSeq[i].file_path = f
                            /\ LaunchSeq[i].agent = watchPatterns[1][j].agent }) = 1
         /\ \E i \in 1..Len(LaunchSeq) :
              /\ LaunchSeq[i].file_path = f
              /\ LaunchSeq[i].args = watchPatterns[1][j].args

\* The invocations of the event worker w handles that are under way.
Running(w) == { k \in 1..Len(invocations[w]) : invocations[w][k].state = "running" }

\* C17: within one event the invocations do not overlap: at most one is
\* under way, it is the one launched last, and when the running label of an
\* invocation is about to be added every earlier one has its terminal label.
C17_InvocationsDoNotOverlap ==
  /\ Running(1) \subseteq {Len(invocations[1])}
  /\ pc[1] \in {"add_running", "idle", "finish"} => Running(1) = {}

\* C17 happens: the second invocation of an event is under way and the
\* first has completed.
C17_Witness ==
  /\ Len(invocations[1]) = 2
  /\ pc[1] = "run_agent"
  /\ invocations[1][1].state # "running"
  /\ invocations[1][2].state = "running"

(***************************************************************************)
(* Properties of overlapping events (SpecOverlap)                          *)
(***************************************************************************)

\* Worker w is between the addLabels call of an invocation and its
\* removeLabel call.
Labelled(w) == pc[w] \in {"run_agent", "remove_running"}

\* C18: when two events on pull requests are handled at the same time, then
\* however their label operations interleave, the running label is on no
\* pull request once no invocation is between its add and its remove; so it
\* is absent when all invocations of both events have ended.
C18_CleanupNeverMissed ==
  (\A w \in Workers : ~Labelled(w)) =>
    \A pr \in PRs : RunningLabel \notin labels[pr]

\* C18 happens: two events on one pull request have been handled by two
\* runs, each has launched an agent, and the running label is gone.
C18_Witness ==
  /\ ev[1].name = "watch" /\ ev[2].name = "watch"
  /\ ev[1].target = ev[2].target
  /\ pc[1] = "idle" /\ pc[2] = "idle"
  /\ invocations[1] # << >> /\ invocations[2] # << >>
  /\ RunningLabel \notin labels[ev[1].target]

(***************************************************************************)
(* Properties of live events (SpecLive)                                    *)
(***************************************************************************)

\* The comment the event being handled is about.
EventComment == comments[ev[1].comment_id]

\* [options] <pattern> <agent>: the words of a watch command before its
\* " @ " separator, the options left out.
WatchPartOf(fullCommand) ==
  IF Includes(fullCommand, ArgSeparator)
  THEN SubSeq(fullCommand, 1, IndexOf(fullCommand, ArgSeparator) - 1)
  ELSE fullCommand

PatternAndAgent(body) ==
  SelectSeq(SplitWS(Trim(WatchPartOf(FullCommand(body, WatchToken)))),
            LAMBDA word : word # << >> /\ ~StartsWithAt(word, OptionPrefix, 1))

\* A watch command whose pattern or agent is missing.
IncompleteWatch(body) ==
  Includes(body, WatchToken) /\ Len(PatternAndAgent(body)) < 2

\* C19: a watch command on a pull request that lacks its pattern or its agent
\* is answered with one usage message and nothing else happens: no agent is
\* launched, so no label is written.
C19_IncompleteWatchGetsUsage ==
  (ev[1].name = "watch" /\ IncompleteWatch(EventComment.body)) =>
    /\ posts[1] = << CommentPost(EventComment, "usage") >>
    /\ invocations[1] = << >>
    /\ queue[1] = << >>
    /\ pc[1] = "idle"

\* The body holds one of the four commands.
CarriesCommand(body) ==
  \E token \in {WatchToken, UnwatchToken, ListToken, RunToken} : Includes(body, token)

\* The event being handled carries no command: a pull request action the
\* router does not handle, a comment on an issue that is no pull request, or
\* a comment without a command.
NoCommandEvent ==
  /\ ev[1] # NoEvent
  /\ IF ev[1].comment_id = 0 THEN ev[1].name = "ignored"
     ELSE EventComment.pr \notin PRs \/ ~CarriesCommand(EventComment.body)

\* C20: an event that carries no command posts nothing and launches nothing
\* (so writes no label): the handler has returned without a write.
C20_NoCommandNoWrite ==
  NoCommandEvent =>
    /\ posts[1] = << >>
    /\ invocations[1] = << >>
    /\ queue[1] = << >>
    /\ pc[1] = "idle"

(***************************************************************************)
(* Properties of launchAgent's steps (SpecLive)                            *)
(***************************************************************************)

\* The calls of an invocation up to the removal of the running label.
CallsToRemove == << "add_running", "agent", "remove_running" >>

\* The terminal label of an invocation whose agent ended with the outcome:
\* seen on success, failed on error.
TerminalCall(outcome) == IF outcome = "returns" THEN "add_seen" ELSE "add_failed"

\* C21: the calls of an invocation are issued in the order add running,
\* agent, remove running, terminal label, none left out; the terminal label
\* is seen:<agent> when the agent returned and failed when it did not.
C21_StepsInOrder ==
  \A k \in 1..Len(invocations[1]) :
    IF invocations[1][k].state = "running"
    THEN invocations[1][k].calls =
           SubSeq(CallsToRemove, 1, Len(invocations[1][k].calls))
    ELSE invocations[1][k].calls =
           Append(CallsToRemove, TerminalCall(invocations[1][k].outcome))

(***************************************************************************)
(* Properties of the replay's unwatch (SpecReplay)                         *)
(***************************************************************************)

\* Comment u is an unwatch of the agent and the pattern of watch comment c,
\* made after it, and no watch of the pattern is as new as u.
UnwatchedLast(c, u) ==
  /\ IsWatch(c) /\ IsUnwatch(u)
  /\ UnwatchMatch(u.body).agent = WatchAgent(c)
  /\ UnwatchMatch(u.body).pattern = WatchPattern(c)
  /\ c.created_at < u.created_at
  /\ \A d \in History :
       (IsWatch(d) /\ WatchPattern(d) = WatchPattern(c)) => d.created_at < u.created_at

\* C22: if the history holds Watch(p, A), later Unwatch(A, p), and no watch of
\* p after that, the replayed table has no binding for p (the list does not
\* report it) and p is in the exclusion set of A.
C22_UnwatchRemovesBinding ==
  Replayed =>
    \A c, u \in History :
      UnwatchedLast(c, u) =>
        /\ ~Bound(WatchPattern(c))
        /\ << WatchAgent(c), WatchPattern(c) >> \in unwatchPatterns[1]

(***************************************************************************)
(* Properties of matchPattern (SpecMatch)                                  *)
(***************************************************************************)

\* s.endsWith(suffix)
EndsWith(s, suffix) == StartsWithAt(s, suffix, Len(s) - Len(suffix) + 1)

\* C23: "**" matches a run of any length with any number of "/" in it:
\* "**/*.js" matches every path <dirs>/<name>.js and "src/**/*.ts" every
\* path src/<dirs>/<name>.ts, whatever the number of directories, so
\* a/b/c.js and src/a/b/c.ts.
C23_DoubleStarSpansDirectories ==
  ret.done =>
    /\ ( /\ arg.pattern = P_any_js
         /\ Separators(arg.filepath) >= 1
         /\ EndsWith(arg.filepath, << ".", "j", "s" >>) ) => ret.matches
    /\ ( /\ arg.pattern = P_src_ts
         /\ StartsWithAt(arg.filepath, << "s", "r", "c", "/" >>, 1)
         /\ Separators(arg.filepath) >= 2
         /\ EndsWith(arg.filepath, << ".", "t", "s" >>) ) => ret.matches

\* The expression consumes s from its first character to its last one.
SpansWholePath(alts, s) ==
  \E k \in 1..Len(alts) : (Len(s) + 1) \in RunAtoms(alts[k], s, {1})

\* The pattern goes through the compiled expression (lines 23-49).
Compiled(pattern, filepath) == pattern # << "*" >> /\ pattern # filepath

\* C24: a match is a match of the whole path: whenever the compiled
\* expression of a pattern accepts a path, brace patterns included, it
\* consumes the path from its first character to its last, never only a
\* prefix, a suffix or an inner part of it.
C24_WholePathOnly ==
  (ret.done /\ ret.matches /\ Compiled(arg.pattern, arg.filepath)) =>
    SpansWholePath(Alternatives(ParseAtoms(GlobToRegex(arg.pattern), 1)), arg.filepath)

\* new RegExp(regexStr) throws for this pattern.
Uncompilable(pattern) == ~RegexCompiles(ParseAtoms(GlobToRegex(pattern), 1))

\* C25: matchPattern returns a boolean for every pattern, and a pattern
\* whose expression does not compile (an unterminated class "[", a class
\* with a range out of order "[z-a]") matches no path at all.
C25_UncompilableNeverMatches ==
  ret.done =>
    /\ ret.matches \in BOOLEAN
    /\ Uncompilable(arg.pattern) => ~ret.matches

(***************************************************************************)
(* Synchronize events (Spec)                                               *)
(***************************************************************************)

\* Comment c is a review comment on pull request pr that holds a watch
\* command.
WatchCommentOn(c, pr) ==
  c.pr = pr /\ c.kind = "review" /\ Includes(c.body, WatchToken)

\* C26: every invocation of a synchronize event comes from a watch comment
\* that sits on the synchronized pull request itself, on the file it is for;
\* a watch command on another pull request causes none.
C26_SynchronizeUsesOwnComments ==
  ev[1].name = "synchronize" =>
    \A k \in 1..Len(LaunchSeq) :
      /\ LaunchSeq[k].pr_number = ev[1].target
      /\ \E c \in History :
           /\ c.id = LaunchSeq[k].comment_id
           /\ WatchCommentOn(c, ev[1].target)
           /\ c.path = LaunchSeq[k].file_path

\* C26 witness: a synchronize event has started an invocation while another
\* pull request carries a watch command too.
C26_Witness ==
  /\ ev[1].name = "synchronize"
  /\ invocations[1] # << >>
  /\ \E c \in History : c.pr # ev[1].target /\ IsWatch(c)

\* Comment u is an unwatch command whose exclusion covers the invocation ctx:
\* it names ctx's agent and its pattern matches ctx's file.
Vetoes(u, ctx) ==
  /\ IsUnwatch(u)
  /\ UnwatchMatch(u.body).agent = ctx.agent
  /\ matchPattern(UnwatchMatch(u.body).pattern, ctx.file_path)

\* C27: an exclusion vetoes in the live handling of a watch comment and in a
\* synchronize event as it does at bootstrap: with Unwatch(A, e) in the
\* history and e matching file f, neither event starts A on f.
C27_ExclusionVetoesEveryEvent ==
  ev[1].name \in {"watch", "synchronize"} =>
    \A u \in History : \A k \in 1..Len(LaunchSeq) : ~Vetoes(u, LaunchSeq[k])

\* C28: a synchronize event starts at most one invocation per file and agent,
\* however many watch comments of the pull request select the file for the
\* agent.
C28_SynchronizeLaunchesOncePerPair ==
  ev[1].name = "synchronize" =>
    \A j, k \in 1..Len(LaunchSeq) :
      (/\ LaunchSeq[j].file_path = LaunchSeq[k].file_path
       /\ LaunchSeq[j].agent = LaunchSeq[k].agent) => j = k

(***************************************************************************)
(* The summary of an opened pull request (SpecReplay)                      *)
(***************************************************************************)

\* The summary comments the handler has posted.
Summaries == { k \in 1..Len(posts[1]) : posts[1][k].msg = "summary" }

\* C29: when the handling of an opened pull request has ended, it has posted
\* exactly one summary comment if it had at least one invocation, whatever
\* their number, and with no binding or no matching file it has posted
\* nothing and no label has changed.
C29_OneSummaryIfAnyMatch ==
  (ev[1].name = "opened" /\ pc[1] = "idle") =>
    IF invocations[1] # << >>
    THEN Cardinality(Summaries) = 1
    ELSE posts[1] = << >> /\ labels = [t \in Targets |-> {}]

(***************************************************************************)
(* Unwatch commands, live (SpecLive)                                       *)
(***************************************************************************)

\* The words that follow the first @agent-unwatch of a comment.
UnwatchArguments(body) ==
  SelectSeq(SplitWS(SliceFrom(body, IndexOf(body, UnwatchToken) + Len(UnwatchToken))),
            LAMBDA word : word # << >>)

\* The handler has acknowledged the unwatch command.
Acknowledged ==
  \E k \in 1..Len(posts[1]) : posts[1][k].msg \in {"unwatched", "all_cleared"}

\* C30: an unwatch command with fewer than its two arguments, agent and
\* pattern, is answered with the usage message and is not acknowledged; one
\* that is acknowledged had both.
C30_UnwatchNeedsAgentAndPattern ==
  ev[1].name = "unwatch" =>
    /\ Len(UnwatchArguments(EventComment.body)) < 2
         => posts[1] = << CommentPost(EventComment, "usage") >>
    /\ Acknowledged => Len(UnwatchArguments(EventComment.body)) >= 2

(***************************************************************************)
(* Comments that hold more than one command: a history of them is          *)
(* replayed, and they arrive as live events                                *)
(***************************************************************************)

\* A watch command and, on the next line, an unwatch command.
WatchAndUnwatch == WatchCmd(P_js, Echo) \o << "\n" >> \o UnwatchCmd(Echo, P_js)

\* The comment bodies of this part.
CommandBodies == { WatchAndUnwatch, WatchCmd(P_js, Echo), UnwatchCmd(Lint, P_js) }

\* The histories over a set of bodies, as in Histories.
HistoriesOf(bodies) ==
  UNION { { h \in [1..n -> [id : 1..n, pr : PRs, kind : {"issue"},
                            created_at : 1..n, body : bodies, path : {<< >>}]] :
              /\ \A i \in 1..n : h[i].id = i
              /\ n > 0 => h[1].created_at = 1
              /\ \A i \in 1..(n - 1) :
                   h[i + 1].created_at \in {h[i].created_at, h[i].created_at + 1} }
          : n \in 0..MaxHistory }

InitCommands ==
  /\ comments \in HistoriesOf(CommandBodies)
  /\ Idle
  /\ arg = NoArg
  /\ ret = NoRet

NextCommands ==
  \/ \E pr \in PRs : ev[1] = NoEvent /\ PullRequestOpened(1, pr)
  \/ \E pr \in PRs, body \in CommandBodies :
       ev[1] = NoEvent /\ CommentCreated(1, pr, "issue", << >>, body)
  \/ Launch(1)

SpecCommands == InitCommands /\ [][NextCommands]_vars

\* The text of a comment up to its second command: what is left when only
\* the first command of a comment counts.
FirstCommand(body) ==
  IF /\ Includes(body, WatchToken)
     /\ Includes(body, UnwatchToken)
     /\ IndexOf(body, WatchToken) < IndexOf(body, UnwatchToken)
  THEN SubSeq(body, 1, IndexOf(body, UnwatchToken) - 1)
  ELSE body

FirstCommands(cs) == [i \in 1..Len(cs) |-> [cs[i] EXCEPT !.body = FirstCommand(cs[i].body)]]

\* C31: a comment counts for its first command alone: a comment with a watch
\* command followed by an unwatch command is handled as a watch command when
\* it arrives, and a replay gives the tables of the history in which every
\* comment is cut down to its first command.
C31_FirstCommandOnly ==
  /\ (ev[1].comment_id # 0 /\ FirstCommand(EventComment.body) # EventComment.body)
       => ev[1].name = "watch"
  /\ (ev[1].name = "opened" /\ ev[1].unreadable = {}) =>
       \E prOrder \in Orders(PRs), listing \in Orders(1..Len(OnOtherPRs)) :
         Replay(prOrder, FirstCommands(OnOtherPRs), listing, 0, {}) = ReplayedTables

(***************************************************************************)
(* Run commands that come through the router (SpecLive)                    *)
(***************************************************************************)

\* The comment holds a run command and no other command.
IsRun(body) ==
  /\ Includes(body, RunToken)
  /\ ParseRun(body).ok
  /\ ~Includes(body, WatchToken) /\ ~Includes(body, UnwatchToken)
  /\ ~Includes(body, ListToken)

\* C32: a run command that handleAgentWatch gets, on a pull request or on an
\* issue, gives exactly one invocation, of the named agent with the given
\* args and with no file; it gets no usage message and is not ignored.
C32_RunCommandIsRouted ==
  (ev[1].comment_id # 0 /\ IsRun(EventComment.body)) =>
    /\ Len(LaunchSeq) = 1
    /\ LaunchSeq[1].agent = ParseRun(EventComment.body).agentName
    /\ LaunchSeq[1].args = ParseRun(EventComment.body).argsString
    /\ LaunchSeq[1].file_path = << >>
    /\ \A k \in 1..Len(posts[1]) : posts[1][k].msg # "usage"

(***************************************************************************)
(* Platform writes that fail: the platform may reject the writes of any    *)
(* step of a handler                                                       *)
(***************************************************************************)

\* The platform starts or stops rejecting writes.
PlatformFlips ==
  /\ arg' = IF WritesFail THEN NoArg ELSE [kind |-> "writes_fail"]
  /\ UNCHANGED << comments, labels, pc, ev, queue, agentError, invocations, posts,
                  watchPatterns, unwatchPatterns, ret >>

\* The comment bodies of this part.
WriteBodies == { WatchCmd(P_js, Echo), UnwatchCmd(Echo, P_js), ListToken }

\* A repository with a history of watch commands gets one event.
InitWrites ==
  /\ comments \in HistoriesOf({ WatchCmd(P_js, Echo) })
  /\ Idle
  /\ arg = NoArg
  /\ ret = NoRet

NextWrites ==
  \/ \E body \in WriteBodies, pr \in PRs :
       ev[1] = NoEvent /\ CommentCreated(1, pr, "issue", << >>, body)
  \/ \E pr \in PRs : ev[1] = NoEvent /\ PullRequestOpened(1, pr)
  \/ \E pr \in PRs : ev[1] = NoEvent /\ PullRequestSynchronize(1, pr)
  \/ PlatformFlips
  \/ Launch(1)

SpecWrites == InitWrites /\ [][NextWrites]_vars

\* C33: no handler throws to the caller of handleAgentWatch, whichever of
\* the platform writes it attempts are rejected: the events of watch, unwatch
\* and list commands and of opened and synchronized pull requests all end
\* normally.
C33_WriteFailureIsSwallowed ==
  ev[1].name \in {"watch", "unwatch", "list", "opened", "synchronize"} => ~ev[1].thrown

(***************************************************************************)
(* The agents that are run (SpecLive)                                      *)
(***************************************************************************)

\* C34: only the agents of the registry are run: for a command that names
\* anything else, whatever characters the name has, no file is loaded and
\* run, and the invocation ends failed.
C34_OnlyRegistryAgentsRun ==
  \A k \in 1..Len(invocations[1]) :
    (/\ invocations[1][k].context.agent \notin Registry
     /\ invocations[1][k].outcome # "none") =>
       /\ invocations[1][k].outcome = "missing"
       /\ invocations[1][k].state \in {"running", "failed"}

\* The handler has posted the confirmation that the agent ran.
ConfirmedExecuted ==
  \E k \in 1..Len(posts[1]) : posts[1][k].msg = "confirm_executed"

\* C35: a watch command is confirmed as executed only when every invocation
\* launched for it succeeded; after a failed invocation the commenter gets
\* the failure report and no confirmation.
C35_ConfirmationOnlyOnSuccess ==
  (ev[1].name = "watch" /\ ConfirmedExecuted) =>
    \A k \in 1..Len(invocations[1]) : invocations[1][k].outcome = "returns"

(***************************************************************************)
(* Replay in a repository with more pull requests than one page holds      *)
(***************************************************************************)

\* per_page: 50 in the two calls of pulls.list.
PerPage == 50

\* [...openPRs.data, ...closedPRs.data]: the first page of the open pull
\* requests and the first page of the closed ones; no second page is asked
\* for.
PullsListed(open, closed) == FirstN(open, PerPage) \o FirstN(closed, PerPage)

\* The open pull requests of the repository: one more than a page holds.
ManyPulls == 1..(PerPage + 1)

\* pulls.list returns the pull requests newest first.
NewestFirst(n) == [i \in 1..n |-> n + 1 - i]

\* The pull requests of a list that have a comment; the loop body leaves the
\* tables as they are for the others, which have nothing to fold.
Commented(pulls, history) ==
  SelectSeq(pulls, LAMBDA pr : \E i \in 1..Len(history) : history[i].pr = pr)

PageBodies == { WatchCmd(P_js, Echo), WatchCmd(P_js, Lint), UnwatchCmd(Echo, P_js) }

\* One of the pull requests carries a command.
InitPages ==
  /\ comments \in { << Comment(1, pr, "issue", 1, body, << >>) >> :
                      pr \in ManyPulls, body \in PageBodies }
  /\ Idle
  /\ arg = NoArg
  /\ ret = NoRet

\* A list command on the newest pull request, which has no labels: handleWatchList
\* replays the pull requests that pulls.list returns.
ListCommandCreated(w) ==
  /\ pc[w] = "idle"
  /\ ev[w] = NoEvent
  /\ comments' = Append(comments, NewComment(PerPage + 1, "issue", << >>, ListToken))
  /\ \E listing \in Orders(1..(Len(comments) + 1)) :
       Start(w, CommentEvent("list", NewComment(PerPage + 1, "issue", << >>, ListToken),
                             "none"),
             << >>,
             Replay(Commented(PullsListed(NewestFirst(PerPage + 1), << >>),
                              Append(comments,
                                     NewComment(PerPage + 1, "issue", << >>, ListToken))),
                    Append(comments, NewComment(PerPage + 1, "issue", << >>, ListToken)),
                    listing, 0, {}),
             << CommentPost(NewComment(PerPage + 1, "issue", << >>, ListToken), "list") >>)
  /\ UNCHANGED << labels, arg, ret >>

NextPages == ListCommandCreated(1)

SpecPages == InitPages /\ [][NextPages]_vars

\* C36: a replay takes in every pull request and every comment, however many
\* there are: after the replay of a list command, a watch command of the
\* history has its binding and an unwatch command its exclusion, whichever
\* pull request it is on.
C36_ReplayCoversEveryPull ==
  ev[1].name = "list" =>
    \A c \in History :
      /\ IsWatch(c) => Binds(WatchPattern(c), WatchAgent(c))
      /\ IsUnwatch(c) =>
           << UnwatchMatch(c.body).agent, UnwatchMatch(c.body).pattern >> \in unwatchPatterns[1]

(***************************************************************************)
(* The running label while agents execute (SpecOverlap)                    *)
(***************************************************************************)

\* Worker w is executing an agent: between the addLabels call of an
\* invocation and the end of the agent's run.
Executing(w) == pc[w] = "run_agent"

\* The pull request worker w's current invocation is for.
ExecutingOn(w) == TargetNumber(Head(queue[w]))

\* C37 as stated: whenever an agent is executing for a pull request the
\* running label is on that pull request, also when two events for the same
\* pull request are handled at the same time.
C37_RunningLabelWhileExecuting ==
  \A w \in Workers : Executing(w) => RunningLabel \in labels[ExecutingOn(w)]

\* Another run has launched an invocation on pull request pr.
OtherLaunchedOn(w, pr) ==
  \E v \in Workers \ {w} :
    \E k \in 1..Len(invocations[v]) : TargetNumber(invocations[v][k].context) = pr

\* C37, amended: whenever an agent is executing for a pull request the
\* running label is on that pull request, provided no other event handled at
\* the same time has launched an invocation on the same pull request.
C37_RunningLabelUnlessShared ==
  \A w \in Workers :
    (Executing(w) /\ ~OtherLaunchedOn(w, ExecutingOn(w)))
      => RunningLabel \in labels[ExecutingOn(w)]

\* C37 happens: two runs are executing agents at the same time, on different
\* pull requests, and each pull request has the running label.
C37_Witness ==
  /\ Executing(1) /\ Executing(2)
  /\ ExecutingOn(1) # ExecutingOn(2)
  /\ RunningLabel \in labels[ExecutingOn(1)]
  /\ RunningLabel \in labels[ExecutingOn(2)]

(***************************************************************************)
(* The comments the system writes, read back by the system (SpecEcho)      *)
(***************************************************************************)

\* The texts are written with an apostrophe where the source has a backtick,
\* which a string cannot hold here: both are neither whitespace nor word
\* characters, and no text of the source below has an apostrophe.

\* The usage, example and command lines of postError's text (lines 880-883,
\* 886-889, 892-894).
UsageLines ==
  << "-", " ", "'", "@", "a", "g", "e", "n", "t", "-", "w", "a", "t", "c",
     "h", " ", "[", "o", "p", "t", "i", "o", "n", "s", "]", " ", "<", "p",
     "a", "t", "t", "e", "r", "n", ">", " ", "<", "a", "g", "e", "n", "t",
     ">", " ", "[", "@", " ", "<", "a", "g", "e", "n", "t", "-", "a", "r",
     "g", "s", ">", "]", "'", "\n", "-", " ", "'", "@", "a", "g", "e", "n",
     "t", "-", "u", "n", "w", "a", "t", "c", "h", " ", "<", "a", "g", "e",
     "n", "t", ">", " ", "<", "p", "a", "t", "t", "e", "r", "n", ">", "'",
     "\n", "-", " ", "'", "@", "a", "g", "e", "n", "t", "-", "l", "i", "s",
     "t", "'", "\n", "-", " ", "'", "@", "a", "g", "e", "n", "t", "-", "r",
     "u", "n", " ", "<", "a", "g", "e", "n", "t", ">", " ", "[", "@", " ",
     "<", "a", "r", "g", "s", ">", "]", "'", " ", "(", "i", "n", " ", "i",
     "s", "s", "u", "e", "s", ")", "\n", "-", " ", "'", "@", "a", "g", "e",
     "n", "t", "-", "w", "a", "t", "c", "h", " ", "*", ".", "j", "s", " ",
     "e", "c", "h", "o", " ", "@", " ", "l", "i", "n", "t", "'", " ", "-",
     " ", "a", "l", "l", " ", ".", "j", "s", " ", "f", "i", "l", "e", "s",
     " ", "w", "i", "t", "h", " ", "a", "g", "e", "n", "t", " ", "a", "r",
     "g", "s", "\n", "-", " ", "'", "@", "a", "g", "e", "n", "t", "-", "w",
     "a", "t", "c", "h", " ", "s", "r", "c", "/", "*", "*", "/", "*", ".",
     "t", "s", " ", "t", "y", "p", "e", "s", "c", "r", "i", "p", "t", " ",
     "@", " ", "c", "h", "e", "c", "k", " ", "-", "-", "s", "t", "r", "i",
     "c", "t", "'", " ", "-", " ", "T", "y", "p", "e", "S", "c", "r", "i",
     "p", "t", " ", "f", "i", "l", "e", "s", " ", " ", "\n", "-", " ", "'",
     "@", "a", "g", "e", "n", "t", "-", "w", "a", "t", "c", "h", " ", "t",
     "e", "s", "t", "-", "*", ".", "j", "s", " ", "t", "e", "s", "t", "'",
     " ", "-", " ", "f", "i", "l", "e", "s", " ", "m", "a", "t", "c", "h",
     "i", "n", "g", " ", "t", "e", "s", "t", "-", "*", ".", "j", "s", ",",
     " ", "n", "o", " ", "a", "g", "e", "n", "t", " ", "a", "r", "g", "s",
     "\n", "-", " ", "'", "@", "a", "g", "e", "n", "t", "-", "w", "a", "t",
     "c", "h", " ", "-", "-", "p", "e", "r", "s", "i", "s", "t", " ", "{",
     "a", "p", "p", ",", "l", "i", "b", "}", "/", "*", ".", "j", "s", " ",
     "l", "i", "n", "t", " ", "@", " ", "s", "t", "r", "i", "c", "t", "'",
     " ", "-", " ", "w", "i", "t", "h", " ", "w", "a", "t", "c", "h", " ",
     "o", "p", "t", "i", "o", "n", "s", "\n", "-", " ", "'", "@", "a", "g",
     "e", "n", "t", "-", "u", "n", "w", "a", "t", "c", "h", " ", "e", "c",
     "h", "o", " ", "*", ".", "j", "s", "'", " ", "-", " ", "s", "t", "o",
     "p", " ", "e", "c", "h", "o", " ", "a", "g", "e", "n", "t", " ", "f",
     "r", "o", "m", " ", "w", "a", "t", "c", "h", "i", "n", "g", " ", "*",
     ".", "j", "s", "\n", "-", " ", "'", "@", "a", "g", "e", "n", "t", "-",
     "u", "n", "w", "a", "t", "c", "h", " ", "s", "e", "c", "u", "r", "i",
     "t", "y", " ", "*", "'", " ", "-", " ", "e", "x", "c", "l", "u", "d",
     "e", " ", "a", "l", "l", " ", "f", "i", "l", "e", "s", " ", "f", "r",
     "o", "m", " ", "s", "e", "c", "u", "r", "i", "t", "y", " ", "a", "g",
     "e", "n", "t", "\n", "-", " ", "'", "@", "a", "g", "e", "n", "t", "-",
     "l", "i", "s", "t", "'", " ", "-", " ", "l", "i", "s", "t", " ", "a",
     "l", "l", " ", "a", "c", "t", "i", "v", "e", " ", "p", "a", "t", "t",
     "e", "r", "n", "s", " ", "a", "n", "d", " ", "e", "x", "c", "l", "u",
     "s", "i", "o", "n", "s" >>

\* Line 110: the message of a watch command with fewer than two words.
InvalidWatchMessage ==
  << "I", "n", "v", "a", "l", "i", "d", " ", "@", "a", "g", "e", "n", "t",
     "-", "w", "a", "t", "c", "h", " ", "c", "o", "m", "m", "a", "n", "d",
     " ", "f", "o", "r", "m", "a", "t", ".", " ", "U", "s", "e", ":", " ",
     "@", "a", "g", "e", "n", "t", "-", "w", "a", "t", "c", "h", " ", "[",
     "o", "p", "t", "i", "o", "n", "s", "]", " ", "<", "p", "a", "t", "t",
     "e", "r", "n", ">", " ", "<", "a", "g", "e", "n", "t", ">", " ", "[",
     "@", " ", "<", "a", "g", "e", "n", "t", "-", "a", "r", "g", "s", ">",
     "]" >>

\* Line 408: the message of an unwatch command without a pattern.
InvalidUnwatchMessage ==
  << "I", "n", "v", "a", "l", "i", "d", " ", "@", "a", "g", "e", "n", "t",
     "-", "u", "n", "w", "a", "t", "c", "h", " ", "c", "o", "m", "m", "a",
     "n", "d", " ", "f", "o", "r", "m", "a", "t", ".", " ", "U", "s", "e",
     ":", " ", "@", "a", "g", "e", "n", "t", "-", "u", "n", "w", "a", "t",
     "c", "h", " ", "<", "p", "a", "t", "t", "e", "r", "n", ">" >>

\* postError's text: the message and, below it, the usage.
ErrorText(message) == message \o << "\n" >> \o UsageLines

\* Lines 209 and 227: the last line of both watch confirmations.
ConfirmText(fileTarget) ==
  << "T", "o", " ", "s", "t", "o", "p", " ", "w", "a", "t", "c", "h", "i",
     "n", "g", " ", "t", "h", "i", "s", " ", "p", "a", "t", "t", "e", "r",
     "n", ",", " ", "u", "s", "e", " ", "'", "@", "a", "g", "e", "n", "t",
     "-", "u", "n", "w", "a", "t", "c", "h", " " >>
    \o fileTarget \o << "'", "." >>

\* Lines 698-702: the command lines of the summary handleNewPR posts.
SummaryText ==
  << "-", " ", "'", "@", "a", "g", "e", "n", "t", "-", "u", "n", "w", "a",
     "t", "c", "h", " ", "<", "f", "i", "l", "e", "n", "a", "m", "e", ">",
     "'", " ", "-", " ", "S", "t", "o", "p", " ", "w", "a", "t", "c", "h",
     "i", "n", "g", " ", "s", "p", "e", "c", "i", "f", "i", "c", " ", "f",
     "i", "l", "e", "\n", "-", " ", "'", "@", "a", "g", "e", "n", "t", "-",
     "u", "n", "w", "a", "t", "c", "h", " ", "*", "'", " ", "-", " ", "S",
     "t", "o", "p", " ", "w", "a", "t", "c", "h", "i", "n", "g", " ", "a",
     "l", "l", " ", "f", "i", "l", "e", "s", "\n", "-", " ", "'", "@", "a",
     "g", "e", "n", "t", "-", "w", "a", "t", "c", "h", " ", "<", "f", "i",
     "l", "e", "|", "*", ">", " ", "<", "a", "g", "e", "n", "t", ">", " ",
     "<", "a", "r", "g", "s", ">", "'", " ", "-", " ", "W", "a", "t", "c",
     "h", " ", "f", "i", "l", "e", "(", "s", ")", " ", "w", "i", "t", "h",
     " ", "a", "g", "e", "n", "t" >>

\* Lines 370-372: the command lines of the list handleWatchList posts.
ListText ==
  << "-", " ", "'", "@", "a", "g", "e", "n", "t", "-", "u", "n", "w", "a",
     "t", "c", "h", " ", "<", "f", "i", "l", "e", ">", "'", " ", "-", " ",
     "S", "t", "o", "p", " ", "w", "a", "t", "c", "h", "i", "n", "g", " ",
     "a", " ", "s", "p", "e", "c", "i", "f", "i", "c", " ", "f", "i", "l",
     "e", "\n", "-", " ", "'", "@", "a", "g", "e", "n", "t", "-", "u", "n",
     "w", "a", "t", "c", "h", " ", "*", "'", " ", "-", " ", "S", "t", "o",
     "p", " ", "w", "a", "t", "c", "h", "i", "n", "g", " ", "a", "l", "l",
     " ", "f", "i", "l", "e", "s", "\n", "-", " ", "'", "@", "a", "g", "e",
     "n", "t", "-", "w", "a", "t", "c", "h", " ", "<", "f", "i", "l", "e",
     "|", "*", ">", " ", "<", "a", "g", "e", "n", "t", ">", " ", "<", "a",
     "r", "g", "s", ">", "'", " ", "-", " ", "S", "t", "a", "r", "t", " ",
     "w", "a", "t", "c", "h", "i", "n", "g", " ", "f", "i", "l", "e", "(",
     "s", ")" >>

\* Lines 414-421: the confirmation of an unwatch, its pattern line.
UnwatchedText(fileToUnwatch) ==
  << "*", "*", "P", "a", "t", "t", "e", "r", "n", "*", "*", ":", " ", "'" >>
    \o fileToUnwatch \o << "'" >>

\* The comments the system writes: both usage errors, the confirmation of a
\* watch and of an unwatch of *.js, the summary and the list.
SystemBodies ==
  { ErrorText(InvalidWatchMessage), ErrorText(InvalidUnwatchMessage),
    ConfirmText(P_js), UnwatchedText(P_js), SummaryText, ListText }

EchoBodies == SystemBodies \cup { WatchCmd(P_js, Echo) }

InitEcho ==
  /\ comments \in HistoriesOf(EchoBodies)
  /\ Idle
  /\ arg = NoArg
  /\ ret = NoRet

\* A pull request is opened on a history that holds comments of the system,
\* or a comment of the system comes back as an event.
NextEcho ==
  \/ \E pr \in PRs : ev[1] = NoEvent /\ PullRequestOpened(1, pr)
  \/ \E pr \in PRs, body \in SystemBodies :
       ev[1] = NoEvent /\ CommentCreated(1, pr, "issue", << >>, body)
  \/ Launch(1)

SpecEcho == InitEcho /\ [][NextEcho]_vars

\* A history in which the comments of the system are blank.
WithoutSystemText(cs) ==
  [i \in 1..Len(cs) |->
     IF cs[i].body \in SystemBodies THEN [cs[i] EXCEPT !.body = << >>] ELSE cs[i]]

\* The handler of an event that delivers a comment of the system writes no
\* comment.
NoAnswerToOwnOutput ==
  (ev[1].comment_id # 0 /\ EventComment.body \in SystemBodies) => posts[1] = << >>

\* A replay gives the tables of the history without the system's comments.
ReplayIgnoresOwnOutput ==
  (ev[1].name = "opened" /\ ev[1].unreadable = {}) =>
    \E prOrder \in Orders(PRs), listing \in Orders(1..Len(OnOtherPRs)) :
      Replay(prOrder, WithoutSystemText(OnOtherPRs), listing, 0, {}) = ReplayedTables

\* C38: the system does not react to its own comments: delivered as events
\* they get no answer, and in the history they change neither the bindings
\* nor the exclusions of a replay.
C38_OwnOutputIsInert == NoAnswerToOwnOutput /\ ReplayIgnoresOwnOutput

(***************************************************************************)
(* The two parsers of a watch command (SpecParse)                          *)
(***************************************************************************)

\* C39: the handler of a watch comment and the replay of that comment get
\* the same pattern, agent and args from its body.
C39_ReplayParsesAsLive ==
  (ret.done /\ ret.parsed.ok) =>
    /\ ret.replayed.ok
    /\ ret.replayed.pattern = ret.parsed.fileTarget
    /\ ret.replayed.agent = ret.parsed.agentName
    /\ ret.replayed.args = ret.parsed.argsString

(***************************************************************************)
(* Exclusions and the agents they are for: the same pull request is opened *)
(* on a history and on that history without the unwatch commands for other *)
(* agents, and the platform and the agents behave alike both times         *)
(***************************************************************************)

\* The longest history of this part.
MaxIsolation == 3

\* The pull request that is opened, the first one; the history is on the
\* others.
Opened == CHOOSE pr \in PRs : \A other \in PRs : pr <= other

IsolationBodies ==
  { WatchCmd(F_a_js, Echo) \o << " ", "v" >>, WatchCmd(P_js, Lint), UnwatchCmd(Echo, P_js) }

\* Histories on the other pull requests, one comment per second.
IsolationHistories ==
  UNION { { h \in [1..n -> [id : 1..n, pr : PRs \ {Opened}, kind : {"issue"},
                            created_at : 1..n, body : IsolationBodies, path : {<< >>}]] :
              \A i \in 1..n : h[i].id = i /\ h[i].created_at = i }
          : n \in 0..MaxIsolation }

InitIsolation ==
  /\ comments \in IsolationHistories
  /\ Idle
  /\ arg = NoArg
  /\ ret = NoRet

\* The agent whose invocations are compared, and the order in which
\* pulls.list returns the pull requests both times.
ChoosePlatform ==
  /\ arg = NoArg
  /\ \E agentName \in Registry, prOrder \in Orders(PRs) :
       arg' = [kind |-> "isolation", agent |-> agentName, prOrder |-> prOrder]
  /\ UNCHANGED << comments, labels, pc, ev, queue, agentError, invocations, posts,
                  watchPatterns, unwatchPatterns, ret >>

\* The history without the unwatch commands for agents other than agentName.
WithoutUnwatchOfOthers(cs, agentName) ==
  [i \in 1..Len(cs) |->
     IF UnwatchMatch(cs[i].body).ok /\ UnwatchMatch(cs[i].body).agent # agentName
     THEN [cs[i] EXCEPT !.body = << >>] ELSE cs[i]]

Identity(n) == [i \in 1..n |-> i]

\* handleNewPR of run w on the given history.
OpenedOn(w, history) ==
  /\ arg.kind = "isolation"
  /\ pc[w] = "idle"
  /\ ev[w] = NoEvent
  /\ NewPRMatch(w, Opened,
                Replay(arg.prOrder, history, Identity(Len(history)), Opened, {}), {})
  /\ UNCHANGED << comments, labels, arg, ret >>

\* The first run on the history as it is, then the second run without the
\* other agents' unwatch commands.
NextIsolation ==
  \/ ChoosePlatform
  \/ OpenedOn(1, comments)
  \/ /\ pc[1] = "idle" /\ ev[1] # NoEvent
     /\ OpenedOn(2, WithoutUnwatchOfOthers(comments, arg.agent))
  \/ Launch(1)
  \/ Launch(2)

SpecIsolation == InitIsolation /\ [][NextIsolation]_vars

\* The invocations of one agent among a list of invocations, in order.
OfAgent(contexts, agentName) == SelectSeq(contexts, LAMBDA c : c.agent = agentName)

\* The invocations run w has launched.
Launched(w) == [k \in 1..Len(invocations[w]) |-> invocations[w][k].context]

BothDone ==
  /\ ev[1].name = "opened" /\ pc[1] = "idle"
  /\ ev[2].name = "opened" /\ pc[2] = "idle"

\* An agent run on the same file in both runs ends the same way.
SameBehaviour ==
  \A j \in 1..Len(invocations[1]), k \in 1..Len(invocations[2]) :
    invocations[1][j].context = invocations[2][k].context
      => invocations[1][j].outcome = invocations[2][k].outcome

\* C40: opening a pull request launches the same invocations of an agent
\* whether or not the history holds unwatch commands for other agents.
C40_ExclusionsArePerAgent ==
  (BothDone /\ SameBehaviour) =>
    OfAgent(Launched(1), arg.agent) = OfAgent(Launched(2), arg.agent)

\* No agent has thrown a null or undefined value.
NoNullish ==
  \A w \in Workers : \A k \in 1..Len(invocations[w]) : ~invocations[w][k].propagates

\* The same, as long as no agent throws a null or undefined value.
ExclusionsArePerAgentUnlessNullish ==
  (BothDone /\ SameBehaviour /\ NoNullish) =>
    OfAgent(Launched(1), arg.agent) = OfAgent(Launched(2), arg.agent)

\* The history excludes a file of the pull request for echo, and both runs
\* launched lint on that file.
IsolationHappens ==
  /\ BothDone
  /\ arg.agent = Lint
  /\ \E k \in 1..Len(Launched(1)) :
       /\ Launched(1)[k].agent = Lint
       /\ Excluded(unwatchPatterns[1], Echo, Launched(1)[k].file_path)
       /\ Launched(1)[k] \in { Launched(2)[j] : j \in 1..Len(Launched(2)) }
=============================================================================
